---- MODULE Spec2Model ----
(***************************************************************************)
(* File discovery and incremental checkpointing of tap-universal-file.     *)
(*                                                                         *)
(* The model follows src/tap_universal_file (the revision the tests        *)
(* import): FilesystemManager.get_files lists, filters and sorts the       *)
(* files, FileStream.__init__ derives the starting replication key value,  *)
(* and the stream's get_rows emits one record per data row, annotated      *)
(* with the file's last_modified, which is the stream's replication key.   *)
(***************************************************************************)
EXTENDS Integers, Sequences, FiniteSets, TLC

\* ------------------------------------------------------------------ bounds
MaxFiles == 2        \* entries the storage location may hold
MaxTime  == 2        \* modification times range over 1..MaxTime (seconds)
MaxRows  == 1        \* data rows a file may decode to
MaxLines == 2        \* lines after the header of a delimited file; lines
                     \* of a JSON Lines file
MaxFields == 2       \* fields of the schema of an Avro file

\* ------------------------------------------------------- Python's optional
\* None is the empty tuple and a present value v is <<v>>.
None      == <<>>
Some(v)   == <<v>>
IsNone(x) == x = <<>>
Val(x)    == x[1]

\* ------------------------------------------------------------ input domains
\* Backend-native paths, as sequences of characters.
Names == { <<"a", "/", "a">>, <<"a", "/", "b">>, <<"b", "/", "a">> }

\* Regular expressions, as sequences of tokens: a literal character, ".*"
\* or a final "$". The pattern matches the paths under a/ and the
\* basenames that begin with a.
Regexes == { <<"a", ".*", "$">> }

\* Listing entries (the dict of filesystem.info): a directory, an empty
\* file, or a non-empty file that decodes to no data row or to MaxRows of
\* them. get_files reads neither the modification time nor the content of
\* a directory or an empty file, so these are fixed.
Entries ==
    { e \in [name : Names, type : {"file", "directory"}, size : {0, 1},
             mtime : 1..MaxTime, rows : {0, MaxRows}] :
        /\ e.type = "directory" => (e.size = 1 /\ e.rows = 0 /\ e.mtime = 1)
        /\ e.size = 0 => (e.rows = 0 /\ e.mtime = 1) }

\* start_date values: an ISO-8601 string with offset is its wall-clock
\* reading and its offset. The one configured here is written in a zone one
\* unit ahead of UTC and denotes the instant MaxTime.
StartDates == { None, Some([wall |-> MaxTime + 1, off |-> 1]) }

\* File names of the decoded file, as sequences of tokens: an extension is
\* one token.
DecodeNames ==
    { <<"a", ".csv">>, <<"a", ".tsv">>, <<"a", ".txt">>,
      <<"a", ".csv", ".tsv">>, <<"a", ".csv", "/", "b", ".txt">> }

\* The options of the decoders, at the values the file-selection runs are
\* configured with: delimited files with an explicit comma delimiter.
DecoderDefaults ==
    [file_type                    |-> "delimited",
     delimited_delimiter          |-> ",",
     delimited_error_handling     |-> "fail",
     delimited_header_skip        |-> 0,
     delimited_footer_skip        |-> 0,
     jsonl_error_handling         |-> "fail",
     jsonl_sampling_strategy      |-> "first",
     jsonl_type_coercion_strategy |-> "any",
     avro_type_coercion_strategy  |-> "convert"]

Configs ==
    { c @@ DecoderDefaults :
        c \in [file_regex : {None} \cup { Some(r) : r \in Regexes },
               additional_info : BOOLEAN,
               start_date : StartDates] }

\* The configurations of a delimited stream: the delimiter is detected or
\* the literal comma; malformed rows fail or are kept; no line or one line
\* is skipped at the head of a file.
DelimitedConfigs ==
    { [file_regex |-> None, additional_info |-> ai, start_date |-> None,
       delimited_delimiter |-> d, delimited_error_handling |-> h,
       delimited_header_skip |-> hs]
      @@ DecoderDefaults :
        ai \in BOOLEAN, d \in {"detect", ","}, h \in {"fail", "ignore"},
        hs \in {0, 1} }

\* The cells of a line of a delimited file: a cell is a non-empty string, a
\* sequence of characters. A first line has one or two column names; a
\* later line has no cell (a blank line) up to three cells, all different.
DelimitedHeaders == { << <<"a">> >>, << <<"a">>, <<"b">> >> }
DelimitedRows ==
    { <<>>, << <<"1">> >>, << <<"1">>, <<"2">> >>,
      << <<"1">>, <<"2">>, <<"3">> >> }

\* The configurations of a JSON Lines stream.
JSONLConfigs ==
    { [file_regex |-> None, additional_info |-> ai, start_date |-> None,
       file_type |-> "jsonl", jsonl_error_handling |-> h,
       jsonl_sampling_strategy |-> s, jsonl_type_coercion_strategy |-> c]
      @@ DecoderDefaults :
        ai \in BOOLEAN, h \in {"fail", "ignore"}, s \in {"first", "all"},
        c \in {"any", "string", "envelope"} }

\* A JSON value: its JSON type and its text.
JsonValue(json, text) == [json |-> json, text |-> text]

\* The lines of a JSON Lines file, by what json.loads makes of them: an
\* object of one member, a number, or of two, a number and true, a number
\* (valid JSON that is no object), or a JSONDecodeError (parsed is None
\* here).
JsonLines ==
    { [valid |-> TRUE, object |-> TRUE,
       parsed |-> Some(<<"x">> :> JsonValue("number", <<"1">>))],
      [valid |-> TRUE, object |-> TRUE,
       parsed |-> Some((<<"x">> :> JsonValue("number", <<"1">>))
                       @@ (<<"y">> :> JsonValue("boolean", <<"true">>)))],
      [valid |-> TRUE, object |-> FALSE,
       parsed |-> Some(JsonValue("number", <<"3">>))],
      [valid |-> FALSE, object |-> FALSE, parsed |-> None] }

\* The configurations of an Avro stream.
AvroConfigs ==
    { [file_regex |-> None, additional_info |-> ai, start_date |-> None,
       file_type |-> "avro", avro_type_coercion_strategy |-> c]
      @@ DecoderDefaults :
        ai \in BOOLEAN, c \in {"convert", "envelope"} }

\* The type of a field in an Avro schema, as json.loads gives it: a string
\* (str is TRUE), which names a primitive type or a named type, or a dict
\* or list (str is FALSE), which describes a complex type of that kind or,
\* as {"type": "long", "logicalType": ...} does, an annotated primitive.
AvroTypes ==
    [str : {TRUE},
     name : {"null", "boolean", "int", "long", "float", "double", "bytes",
             "string", "named"}]
    \cup [str : {FALSE},
          name : {"record", "enum", "array", "map", "union", "fixed",
                  "long"}]

\* The names of the fields of an Avro schema, by position.
AvroFieldNames == << <<"f">>, <<"g">>, <<"h">>, <<"i">> >>

\* The separator a delimited file is written with.
Separators == { ",", "\t" }

\* The sequences over a set, up to a length.
SeqUpTo(S, n) == UNION { [1..k -> S] : k \in 0..n }

VARIABLES
    fs,              \* the storage location: entries in listing order
    config,          \* the tap's configuration, fixed for all runs
    state,           \* the persisted bookmark (replication_key_value) or None
    pc,              \* position of the record pipeline
    starting_replication_key_value,  \* FileStream attribute of the current run
    cursor_source,   \* where that value came from: "none", "state", "start_date"
    file_dict_list,  \* get_files: the filtered, sorted candidates
    idx,             \* get_files: next position of the second loop
    none_found,      \* get_files local
    none_synced,     \* get_files local
    yielded,         \* the file dicts get_files has yielded in this run
    cur,             \* the file being decoded, or None
    line_number,     \* get_rows local
    records,         \* the records emitted in this run
    bookmark,        \* the run's replication_key_value so far, or None
    error,           \* the error that ended the run, or "none"
    warned,          \* the none-synced warning was logged in this run
    prev,            \* history: the previous completed run, or None
    schema,          \* FileStream.schema (a cached property), or None
    content,         \* what the file being decoded holds, or None
    reader,          \* the reader get_rows iterates over, or None
    msg,             \* what the error message names: file and line, or None
    io               \* the storage operations of the pipeline, in order

vars == << fs, config, state, pc, starting_replication_key_value, cursor_source,
           file_dict_list, idx, none_found, none_synced, yielded, cur,
           line_number, records, bookmark, error, warned, prev, schema,
           content, reader, msg, io >>

\* ----------------------------------------------------------- pure helpers
Range(s) == { s[i] : i \in 1..Len(s) }

Max(a, b) == IF a >= b THEN a ELSE b

RECURSIVE SeqMax(_)
SeqMax(s) == IF Len(s) = 1 THEN s[1] ELSE Max(s[1], SeqMax(Tail(s)))

\* re.match(pattern, string): the pattern must match at the beginning of the
\* string; the string may continue after the match unless the pattern ends
\* with "$".
RECURSIVE re_match(_, _)
re_match(p, s) ==
    IF p = <<>> THEN TRUE
    ELSE IF Head(p) = "$" THEN s = <<>> /\ re_match(Tail(p), s)
    ELSE IF Head(p) = ".*"
         THEN \E k \in 0..Len(s) : re_match(Tail(p), SubSeq(s, k + 1, Len(s)))
         ELSE s # <<>> /\ Head(s) = Head(p) /\ re_match(Tail(p), Tail(s))

\* pathlib.Path(name).name: what follows the last separator.
RECURSIVE Basename(_)
Basename(s) ==
    IF \E i \in 1..Len(s) : s[i] = "/"
    THEN Basename(Tail(s))
    ELSE s

\* datetime.strptime(value, "%Y-%m-%dT%H:%M:%S%z"): the instant an ISO string
\* with offset denotes.
strptime(s) == s.wall - s.off

\* The harness serialises a timezone-aware UTC datetime as an ISO string
\* with offset +00:00.
isoformat(t) == [wall |-> t, off |-> 0]

\* FilesystemManager._get_last_modified, protocol "file": the whole seconds
\* of the entry's mtime, in UTC.
get_last_modified(file) == file.mtime

\* The condition of the earlier revision, which matched file_regex against
\* Path(name).name.
SkipsByBasename(file, cfg) ==
    \/ file.type = "directory"
    \/ file.size = 0
    \/ /\ ~IsNone(cfg.file_regex)
       /\ ~re_match(Val(cfg.file_regex), Basename(file.name))

\* The condition without its test of the size.
SkipsKeepingEmpty(file, cfg) ==
    \/ file.type = "directory"
    \/ /\ ~IsNone(cfg.file_regex)
       /\ ~re_match(Val(cfg.file_regex), file.name)

\* get_files, the condition of the first loop's `continue`: directories,
\* empty files and names file_regex does not match are skipped.
Skips(file, cfg) ==
    \/ file.type = "directory"
    \/ file.size = 0
    \/ /\ ~IsNone(cfg.file_regex)
       /\ ~re_match(Val(cfg.file_regex), file.name)

\* get_files, first loop: the file dicts of the entries not skipped, in
\* listing order.
RECURSIVE ListFiles(_, _)
ListFiles(listing, cfg) ==
    IF listing = <<>> THEN <<>>
    ELSE IF Skips(Head(listing), cfg)
         THEN ListFiles(Tail(listing), cfg)
         ELSE << [name |-> Head(listing).name,
                  last_modified |-> get_last_modified(Head(listing))] >>
              \o ListFiles(Tail(listing), cfg)

\* The insertion of the earlier revision's sorted(..., reverse=True).
RECURSIVE InsertReverse(_, _)
InsertReverse(s, x) ==
    IF s = <<>> THEN <<x>>
    ELSE IF Head(s).last_modified >= x.last_modified
         THEN <<Head(s)>> \o InsertReverse(Tail(s), x)
         ELSE <<x>> \o s

\* sorted(file_dict_list, key=last_modified): Python's sort is stable; an
\* element goes after every element whose key is not greater.
RECURSIVE Insert(_, _)
Insert(s, x) ==
    IF s = <<>> THEN <<x>>
    ELSE IF Head(s).last_modified <= x.last_modified
         THEN <<Head(s)>> \o Insert(Tail(s), x)
         ELSE <<x>> \o s

\* The list as the listing gave it.
unsorted(s) == s

RECURSIVE sorted(_)
sorted(s) ==
    IF s = <<>> THEN <<>>
    ELSE Insert(sorted(SubSeq(s, 1, Len(s) - 1)), s[Len(s)])

\* The condition with a strict comparison.
PassesStrictly(file_dict, start) ==
    \/ IsNone(start)
    \/ file_dict.last_modified > strptime(Val(start))

\* The condition without its comparison.
PassesAlways(file_dict, start) == TRUE

\* get_files, the condition of the second loop's yield.
Passes(file_dict, start) ==
    \/ IsNone(start)
    \/ file_dict.last_modified >= strptime(Val(start))

\* The listing entry of a file name.
EntryOf(name) == CHOOSE e \in { fs[i] : i \in 1..Len(fs) } : e.name = name

\* FileStream.add_additional_info: the row with its provenance columns when
\* additional_info is set, the bare row otherwise. `row` identifies the
\* decoded data row by the file and the position it was read from.
add_additional_info(row, file_name, line, last_modified) ==
    IF config.additional_info
    THEN [row |-> row,
          sdc |-> Some([file_name |-> file_name, line_number |-> line,
                        last_modified |-> last_modified])]
    ELSE [row |-> row, sdc |-> None]

\* replication_key = "_sdc_last_modified" with is_sorted = True: the
\* bookmark is the replication key value of the latest record; a record
\* without that column moves no bookmark.
IncrementState(bm, record) ==
    IF IsNone(record.sdc) THEN bm
    ELSE Some(isoformat(Val(record.sdc).last_modified))

\* get_files as a whole: the file dicts it yields, in order.
get_files(listing, cfg, start) ==
    SelectSeq(sorted(ListFiles(listing, cfg)), LAMBDA fd : Passes(fd, start))

\* The header line of a delimited file of the storage location, as the
\* reader's fieldnames: a column name is a sequence of characters.
HeaderOf(name) ==
    IF name = <<"a", "/", "a">> THEN << <<"x">>, <<"y">> >>
    ELSE IF name = <<"a", "/", "b">> THEN << <<"y">>, <<"z">> >>
    ELSE << <<"x">> >>

\* A JSON-schema property: its type list and its format ("" when absent).
Property(type, format) == [type |-> type, format |-> format]

\* The properties with plain strings for types.
DelimitedPropertiesPlain(fieldnames) ==
    IF fieldnames = <<>> THEN [f \in {} |-> Property(<<>>, "")]
    ELSE [f \in UNION { Range(fieldnames[i]) : i \in 1..Len(fieldnames) } |->
              Property(<<"string">>, "")]

\* The properties of the first reader alone.
DelimitedPropertiesFirst(fieldnames) ==
    IF fieldnames = <<>> THEN [f \in {} |-> Property(<<>>, "")]
    ELSE [f \in Range(fieldnames[1]) |-> Property(<<"null", "string">>, "")]

\* DelimitedStream.get_properties over the fieldnames of its readers: every
\* field of every reader is a nullable string.
RECURSIVE DelimitedProperties(_)
DelimitedProperties(fieldnames) ==
    IF fieldnames = <<>> THEN [f \in {} |-> Property(<<>>, "")]
    ELSE [f \in Range(fieldnames[Len(fieldnames)]) |->
              Property(<<"null", "string">>, "")]
         @@ DelimitedProperties(SubSeq(fieldnames, 1, Len(fieldnames) - 1))

\* The provenance columns FileStream.schema adds.
SdcProperties ==
    (<< "_sdc_file_name" >> :> Property(<<"string">>, ""))
    @@ (<< "_sdc_line_number" >> :> Property(<<"integer">>, ""))
    @@ (<< "_sdc_last_modified" >> :> Property(<<"string">>, "date-time"))

\* FileStream.schema: the decoder's properties, updated with the provenance
\* columns when additional_info is set.
FileStreamSchema(properties, cfg) ==
    IF cfg.additional_info THEN SdcProperties @@ properties ELSE properties

\* ------------------------------------------------------------------ Init
Init ==
    /\ fs = <<>>
    /\ config \in Configs
    /\ state = None
    /\ pc = "Idle"
    /\ starting_replication_key_value = None
    /\ cursor_source = "none"
    /\ file_dict_list = <<>>
    /\ idx = 1
    /\ none_found = TRUE
    /\ none_synced = TRUE
    /\ yielded = <<>>
    /\ cur = None
    /\ line_number = 0
    /\ records = <<>>
    /\ bookmark = None
    /\ error = "none"
    /\ warned = FALSE
    /\ prev = None
    /\ schema = None
    /\ content = None
    /\ reader = None
    /\ msg = None
    /\ io = <<>>

runVars == << starting_replication_key_value, cursor_source, file_dict_list,
              idx, none_found, none_synced, yielded, cur, line_number,
              records, bookmark, error, warned, schema >>

\* The state of the decoding of a single file in detail.
decVars == << content, reader, msg, io >>

\* --------------------------------------------------------------- actions
\* The environment puts a new entry into the storage location between runs.
AddFile ==
    /\ pc = "Idle"
    /\ Len(fs) < MaxFiles
    /\ \E e \in Entries :
        /\ \A i \in 1..Len(fs) : fs[i].name # e.name
        /\ fs' = Append(fs, e)
    /\ UNCHANGED << config, state, pc, runVars, prev, decVars >>

\* The environment deletes an entry between runs. What the history says of
\* the previous run is kept true: a deleted file is no longer one of its
\* files, and a deleted old file means the old files are no longer intact.
RemoveFile ==
    /\ pc = "Idle"
    /\ \E i \in 1..Len(fs) :
        /\ fs' = SubSeq(fs, 1, i - 1) \o SubSeq(fs, i + 1, Len(fs))
        /\ prev' = IF IsNone(prev) THEN prev
                   ELSE Some([len     |-> IF i <= Val(prev).len
                                          THEN Val(prev).len - 1
                                          ELSE Val(prev).len,
                              start   |-> Val(prev).start,
                              emitted |-> Val(prev).emitted \ {fs[i].name},
                              intact  |-> Val(prev).intact /\ i > Val(prev).len])
    /\ UNCHANGED << config, state, pc, runVars, decVars >>

\* The initialization without its additional_info check.
StartRunUnchecked ==
    /\ pc = "Idle"
    /\ LET start  == IF ~IsNone(state) THEN state ELSE config.start_date
           source == IF ~IsNone(state) THEN "state"
                     ELSE IF ~IsNone(config.start_date) THEN "start_date"
                     ELSE "none"
           files  == get_files(fs, config, start)
           fieldnames == [i \in 1..Len(files) |-> HeaderOf(files[i].name)]
       IN /\ starting_replication_key_value' = start
          /\ cursor_source' = source
          /\ IF ListFiles(fs, config) = <<>>
             THEN /\ pc' = "Failed"
                  /\ error' = "NoFilesFound"
                  /\ schema' = None
             ELSE /\ schema' = Some(FileStreamSchema(
                                       DelimitedProperties(fieldnames), config))
                  /\ pc' = "Listing"
                  /\ error' = "none"
    /\ file_dict_list' = <<>>
    /\ idx' = 1
    /\ none_found' = TRUE
    /\ none_synced' = TRUE
    /\ yielded' = <<>>
    /\ cur' = None
    /\ line_number' = 0
    /\ records' = <<>>
    /\ bookmark' = state
    /\ warned' = FALSE
    /\ UNCHANGED << fs, config, state, prev, decVars >>

\* FileStream.__init__: the starting replication key value comes from the
\* state when one is passed, from start_date otherwise; the stream
\* initialization then discovers the schema, reading the header of every
\* file get_files yields for that starting value (get_files raises when it
\* finds no file); a starting value without additional_info is a
\* RuntimeError.
StartRun ==
    /\ pc = "Idle"
    /\ LET start  == IF ~IsNone(state) THEN state ELSE config.start_date
           source == IF ~IsNone(state) THEN "state"
                     ELSE IF ~IsNone(config.start_date) THEN "start_date"
                     ELSE "none"
           files  == get_files(fs, config, start)
           fieldnames == [i \in 1..Len(files) |-> HeaderOf(files[i].name)]
       IN /\ starting_replication_key_value' = start
          /\ cursor_source' = source
          /\ IF ListFiles(fs, config) = <<>>
             THEN /\ pc' = "Failed"
                  /\ error' = "NoFilesFound"
                  /\ schema' = None
             ELSE /\ schema' = Some(FileStreamSchema(
                                       DelimitedProperties(fieldnames), config))
                  /\ IF ~(IsNone(start) \/ config.additional_info)
                     THEN /\ pc' = "Failed"
                          /\ error' = "AdditionalInfoRequired"
                     ELSE /\ pc' = "Listing"
                          /\ error' = "none"
    /\ file_dict_list' = <<>>
    /\ idx' = 1
    /\ none_found' = TRUE
    /\ none_synced' = TRUE
    /\ yielded' = <<>>
    /\ cur' = None
    /\ line_number' = 0
    /\ records' = <<>>
    /\ bookmark' = state
    /\ warned' = FALSE
    /\ UNCHANGED << fs, config, state, prev, decVars >>

\* get_files up to its first yield: the first loop and the sort.
GetFilesList ==
    /\ pc = "Listing"
    /\ LET found == ListFiles(fs, config)
       IN /\ none_found' = (found = <<>>)
          /\ file_dict_list' = sorted(found)
    /\ idx' = 1
    /\ pc' = "Selecting"
    /\ UNCHANGED << fs, config, state, starting_replication_key_value,
                    cursor_source, none_synced, yielded, cur, line_number,
                    records, bookmark, error, warned, prev, schema,
                    decVars >>

\* The positions of the second loop, from idx on, whose file dict is yielded.
Yieldable ==
    { j \in idx..Len(file_dict_list) :
        Passes(file_dict_list[j], starting_replication_key_value) }

\* get_files, second loop: resume up to the next yield; the reader of the
\* yielded file is handed to get_rows.
NextFile ==
    /\ pc = "Selecting"
    /\ Yieldable # {}
    /\ LET j == CHOOSE k \in Yieldable : \A m \in Yieldable : k <= m
       IN /\ idx' = j + 1
          /\ yielded' = Append(yielded, file_dict_list[j])
          /\ cur' = Some(file_dict_list[j])
    /\ none_synced' = FALSE
    /\ line_number' = 0
    /\ pc' = "Decoding"
    /\ UNCHANGED << fs, config, state, starting_replication_key_value,
                    cursor_source, file_dict_list, none_found, records,
                    bookmark, error, warned, prev, schema, decVars >>

\* get_rows, one iteration of the row loop: the next row of the current
\* file is annotated and emitted, and the harness moves the bookmark.
EmitRow ==
    /\ pc = "Decoding"
    /\ line_number < EntryOf(Val(cur).name).rows
    /\ LET n == line_number + 1
           record == add_additional_info(<<Val(cur).name, n>>, Val(cur).name,
                                         n, Val(cur).last_modified)
       IN /\ line_number' = n
          /\ records' = Append(records, record)
          /\ bookmark' = IncrementState(bookmark, record)
    /\ UNCHANGED << fs, config, state, pc, starting_replication_key_value,
                    cursor_source, file_dict_list, idx, none_found,
                    none_synced, yielded, cur, error, warned, prev, schema,
                    decVars >>

\* get_rows: the current file's rows are exhausted.
EndFile ==
    /\ pc = "Decoding"
    /\ line_number = EntryOf(Val(cur).name).rows
    /\ cur' = None
    /\ pc' = "Selecting"
    /\ UNCHANGED << fs, config, state, starting_replication_key_value,
                    cursor_source, file_dict_list, idx, none_found,
                    none_synced, yielded, line_number, records, bookmark,
                    error, warned, prev, schema, decVars >>

\* get_files of the earlier revision, after its second loop: no file
\* yielded is a RuntimeError as well.
EndFilesRaising ==
    /\ pc = "Selecting"
    /\ Yieldable = {}
    /\ idx' = Len(file_dict_list) + 1
    /\ IF none_found \/ none_synced
       THEN /\ pc' = "Failed"
            /\ error' = "NoFilesFound"
            /\ warned' = warned
            /\ state' = state
       ELSE /\ pc' = "Completed"
            /\ error' = error
            /\ warned' = FALSE
            /\ state' = bookmark
    /\ UNCHANGED << fs, config, starting_replication_key_value, cursor_source,
                    file_dict_list, none_found, none_synced, yielded, cur,
                    line_number, records, bookmark, prev, schema, decVars >>

\* get_files after its second loop: no file found is a RuntimeError, no file
\* yielded is a warning; the completed run persists its bookmark.
EndFiles ==
    /\ pc = "Selecting"
    /\ Yieldable = {}
    /\ idx' = Len(file_dict_list) + 1
    /\ IF none_found
       THEN /\ pc' = "Failed"
            /\ error' = "NoFilesFound"
            /\ warned' = warned
            /\ state' = state
       ELSE /\ pc' = "Completed"
            /\ error' = error
            /\ warned' = none_synced
            /\ state' = bookmark
    /\ UNCHANGED << fs, config, starting_replication_key_value, cursor_source,
                    file_dict_list, none_found, none_synced, yielded, cur,
                    line_number, records, bookmark, prev, schema, decVars >>

\* The process exits and its stream object is gone; the next invocation
\* starts from the persisted state.
Return ==
    /\ pc \in {"Completed", "Failed"}
    /\ pc' = "Idle"
    /\ prev' = IF pc = "Completed"
               THEN Some([len     |-> Len(fs),
                          start   |-> starting_replication_key_value,
                          emitted |-> { records[i].row[1] : i \in 1..Len(records) },
                          intact  |-> TRUE])
               ELSE prev
    /\ starting_replication_key_value' = None
    /\ cursor_source' = "none"
    /\ file_dict_list' = <<>>
    /\ idx' = 1
    /\ none_found' = TRUE
    /\ none_synced' = TRUE
    /\ yielded' = <<>>
    /\ cur' = None
    /\ line_number' = 0
    /\ records' = <<>>
    /\ bookmark' = None
    /\ error' = "none"
    /\ warned' = FALSE
    /\ schema' = None
    /\ UNCHANGED << fs, config, state, decVars >>

Next ==
    \/ AddFile
    \/ RemoveFile
    \/ StartRun
    \/ GetFilesList
    \/ NextFile
    \/ EmitRow
    \/ EndFile
    \/ EndFiles
    \/ Return

Spec == Init /\ [][Next]_vars

TypeOK ==
    /\ pc \in {"Idle", "Listing", "Selecting", "Decoding", "Completed", "Failed"}
    /\ Len(fs) <= MaxFiles
    /\ config \in Configs
    /\ error \in {"none", "NoFilesFound", "AdditionalInfoRequired"}

\* ------------------------------------------ the decoding of one file
\* The line a writer makes of cells with a separator.
RECURSIVE Join(_, _)
Join(cells, sep) ==
    IF cells = <<>> THEN <<>>
    ELSE IF Len(cells) = 1 THEN cells[1]
    ELSE cells[1] \o <<sep>> \o Join(Tail(cells), sep)

\* The cells of a non-empty line cut at a delimiter.
RECURSIVE Split(_, _)
Split(line, delimiter) ==
    IF \A i \in 1..Len(line) : line[i] # delimiter THEN <<line>>
    ELSE LET i == CHOOSE k \in 1..Len(line) :
                      /\ line[k] = delimiter
                      /\ \A j \in 1..(k - 1) : line[j] # delimiter
         IN <<SubSeq(line, 1, i - 1)>>
            \o Split(SubSeq(line, i + 1, Len(line)), delimiter)

\* csv.reader on one line: an empty line is the empty row.
csv_row(line, delimiter) ==
    IF line = <<>> THEN <<>> ELSE Split(line, delimiter)

\* `for _ in range(k): file_list.pop(0)`: the list after the pops, or the
\* IndexError (None here) of a pop from the empty list.
RECURSIVE pop_first(_, _)
pop_first(file_list, k) ==
    IF k <= 0 THEN Some(file_list)
    ELSE IF file_list = <<>> THEN None
    ELSE pop_first(Tail(file_list), k - 1)

\* `for _ in range(k): file_list.pop()`, likewise.
RECURSIVE pop_last(_, _)
pop_last(file_list, k) ==
    IF k <= 0 THEN Some(file_list)
    ELSE IF file_list = <<>> THEN None
    ELSE pop_last(SubSeq(file_list, 1, Len(file_list) - 1), k - 1)

\* The skipping that pops the footer from the head of the list.
skip_rows_head(lines, cfg) ==
    LET headless == pop_first(lines, cfg.delimited_header_skip)
        footless == IF IsNone(headless) THEN None
                    ELSE pop_first(Val(headless), cfg.delimited_footer_skip)
    IN IF IsNone(footless) THEN <<>> ELSE Val(footless)

\* DelimitedStream._skip_rows: the lines of the file are put into a list,
\* delimited_header_skip of them are popped from its head, then
\* delimited_footer_skip from its end; the IndexError of a pop from the
\* emptied list is caught and gives the empty list.
skip_rows(lines, cfg) ==
    LET headless == pop_first(lines, cfg.delimited_header_skip)
        footless == IF IsNone(headless) THEN None
                    ELSE pop_last(Val(headless), cfg.delimited_footer_skip)
    IN IF IsNone(footless) THEN <<>> ELSE Val(footless)

\* The detection anchored at the end of the name.
DetectDelimiterByExtension(file_name, cfg) ==
    IF cfg.delimited_delimiter = "detect"
    THEN IF re_match(<<".*", ".csv", "$">>, file_name) THEN Some(",")
         ELSE IF re_match(<<".*", ".tsv", "$">>, file_name) THEN Some("\t")
         ELSE None
    ELSE Some(cfg.delimited_delimiter)

\* DelimitedStream._get_readers, the delimiter of a file: under "detect"
\* re.match(".*\\.csv.*") gives the comma, else re.match(".*\\.tsv.*") the
\* tab, else the RuntimeError (None here); any other value is the delimiter.
DetectDelimiter(file_name, cfg) ==
    IF cfg.delimited_delimiter = "detect"
    THEN IF re_match(<<".*", ".csv", ".*">>, file_name) THEN Some(",")
         ELSE IF re_match(<<".*", ".tsv", ".*">>, file_name) THEN Some("\t")
         ELSE None
    ELSE Some(cfg.delimited_delimiter)

\* ModifiedDictReader(f=file_list, delimiter=..., fieldnames=None): the
\* csv.reader has read reader_line_num lines of file_list.
NewReader(file_list, delimiter) ==
    [file_list |-> file_list, delimiter |-> delimiter, fieldnames |-> None,
     reader_line_num |-> 0, line_num |-> 0]

\* csv.DictReader.fieldnames: the first row the reader gives, read once.
Fieldnames(r) ==
    IF IsNone(r.fieldnames) /\ r.reader_line_num < Len(r.file_list)
    THEN [r EXCEPT !.fieldnames =
                       Some(csv_row(r.file_list[r.reader_line_num + 1],
                                    r.delimiter)),
                   !.reader_line_num = r.reader_line_num + 1,
                   !.line_num = r.reader_line_num + 1]
    ELSE [r EXCEPT !.line_num = r.reader_line_num]

\* dict(zip(fieldnames, row)), then the rest of the row under restkey
\* (None) or restval (None) for the fields the row lacks.
DictOf(fieldnames, row) ==
    LET lf == Len(fieldnames)
        lr == Len(row)
        m  == IF lf <= lr THEN lf ELSE lr
        zipped == [f \in { fieldnames[i] : i \in 1..m } |->
                      row[CHOOSE i \in 1..m :
                              /\ fieldnames[i] = f
                              /\ \A j \in 1..m : fieldnames[j] = f => j <= i]]
    IN IF lf < lr THEN (None :> SubSeq(row, lf + 1, lr)) @@ zipped
       ELSE IF lf > lr
            THEN [f \in { fieldnames[i] : i \in (lr + 1)..lf } |-> None]
                 @@ zipped
            ELSE zipped

\* ModifiedDictReader.__next__: the fieldnames are read on the first call;
\* the blank rows are skipped; every access of self.fieldnames sets
\* line_num to the csv reader's, so line_num is the position in file_list
\* of the row at hand; a row that does not align with the fieldnames is an
\* error under "fail"; the end of file_list stops the iteration.
DictReaderNext(r0, cfg) ==
    LET r1 == IF r0.line_num = 0 THEN Fieldnames(r0) ELSE r0
        n  == r1.reader_line_num + 1
        filled == { k \in n..Len(r1.file_list) :
                      csv_row(r1.file_list[k], r1.delimiter) # <<>> }
    IN IF n > Len(r1.file_list)
       THEN [outcome |-> "stop", reader |-> r1, d |-> <<>>]
       ELSE IF filled = {}
       THEN [outcome |-> "stop",
             reader |-> [r1 EXCEPT !.reader_line_num = Len(r1.file_list),
                                   !.line_num = Len(r1.file_list)],
             d |-> <<>>]
       ELSE LET k   == CHOOSE i \in filled : \A j \in filled : i <= j
                row == csv_row(r1.file_list[k], r1.delimiter)
                r2  == [r1 EXCEPT !.reader_line_num = k, !.line_num = k]
            IN IF /\ Len(Val(r1.fieldnames)) # Len(row)
                  /\ cfg.delimited_error_handling = "fail"
               THEN [outcome |-> "error", reader |-> r2, d |-> <<>>]
               ELSE [outcome |-> "row", reader |-> r2,
                     d |-> DictOf(Val(r1.fieldnames), row)]

\* The stream is being initialized over one file that get_files yielded.
InitDecodeCommon ==
    /\ \E t \in {1, MaxTime} :
          /\ fs = << [name |-> Val(cur).name, type |-> "file", size |-> 1,
                      mtime |-> t] >>
          /\ Val(cur).last_modified = t
    /\ state = None
    /\ pc = "Discovering"
    /\ starting_replication_key_value = None
    /\ cursor_source = "none"
    /\ file_dict_list = <<>>
    /\ idx = 1
    /\ none_found = FALSE
    /\ none_synced = FALSE
    /\ yielded = <<>>
    /\ line_number = 0
    /\ records = <<>>
    /\ bookmark = None
    /\ error = "none"
    /\ warned = FALSE
    /\ prev = None
    /\ schema = None
    /\ reader = None
    /\ msg = None
    /\ io = <<>>

\* A delimited file: a first line and up to MaxLines lines after it, each
\* written with the file's separator.
InitDelimited ==
    /\ config \in DelimitedConfigs
    /\ \E n \in DecodeNames, t \in {1, MaxTime} :
          cur = Some([name |-> n, last_modified |-> t])
    /\ \E sep \in Separators, h \in DelimitedHeaders,
          rows \in SeqUpTo(DelimitedRows, MaxLines) :
          content = Some([lines |-> <<Join(h, sep)>>
                                    \o [i \in 1..Len(rows) |->
                                           Join(rows[i], sep)]])

\* What the decoding leaves alone.
selectVars == << fs, config, state, starting_replication_key_value,
                cursor_source, file_dict_list, idx, none_found, none_synced,
                yielded, cur, bookmark, warned, prev, content, io >>

\* DelimitedStream.get_properties inside the stream initialization: the
\* reader of the file is made, which fails when the delimiter cannot be
\* detected, and its fieldnames become the schema's columns; get_rows then
\* starts with a reader of its own.
DelimitedDiscover ==
    /\ pc = "Discovering"
    /\ config.file_type = "delimited"
    /\ LET delimiter == DetectDelimiter(Val(cur).name, config)
           r == Fieldnames(NewReader(skip_rows(Val(content).lines, config),
                                     Val(delimiter)))
       IN IF IsNone(delimiter)
          THEN /\ pc' = "Failed"
               /\ error' = "AmbiguousDelimiter"
               /\ UNCHANGED << schema, reader >>
          ELSE IF IsNone(r.fieldnames)
          THEN /\ pc' = "Failed"
               /\ error' = "NoFieldnames"
               /\ reader' = Some(r)
               /\ UNCHANGED schema
          ELSE /\ pc' = "Reading"
               /\ error' = "none"
               /\ schema' = Some(FileStreamSchema(
                                    DelimitedProperties(<<Val(r.fieldnames)>>),
                                    config))
               /\ reader' = Some(NewReader(skip_rows(Val(content).lines,
                                                     config),
                                           Val(delimiter)))
    /\ UNCHANGED << selectVars, line_number, records, msg >>

\* DelimitedStream.get_rows, one iteration of `for row in reader`: the row
\* is annotated and emitted, or the reader raises, or the file is done.
DelimitedNext ==
    /\ pc = "Reading"
    /\ config.file_type = "delimited"
    /\ LET step == DictReaderNext(Val(reader), config)
       IN /\ reader' = Some(step.reader)
          /\ IF step.outcome = "stop"
             THEN /\ pc' = "Completed"
                  /\ UNCHANGED << line_number, records, error, msg >>
             ELSE IF step.outcome = "error"
             THEN /\ pc' = "Failed"
                  /\ error' = "MalformedRow"
                  /\ msg' = Some([file_name |-> Val(cur).name,
                                  line |-> step.reader.line_num])
                  /\ UNCHANGED << line_number, records >>
             ELSE /\ line_number' = line_number + 1
                  /\ records' = Append(records,
                        add_additional_info(step.d, Val(cur).name,
                                            line_number + 1,
                                            Val(cur).last_modified))
                  /\ UNCHANGED << pc, error, msg >>
    /\ UNCHANGED << selectVars, schema >>

\* A JSON Lines file of up to MaxLines lines.
InitJSONL ==
    /\ config \in JSONLConfigs
    /\ \E t \in {1, MaxTime} :
          cur = Some([name |-> <<"a", ".jsonl">>, last_modified |-> t])
    /\ \E lines \in SeqUpTo(JsonLines, MaxLines) :
          content = Some([lines |-> lines])

\* str() of a value json.loads made: True and False for the booleans, None
\* for null, the text of a number, the string itself.
py_str(v) ==
    JsonValue("string",
              IF v = JsonValue("boolean", <<"true">>) THEN <<"True">>
              ELSE IF v = JsonValue("boolean", <<"false">>) THEN <<"False">>
              ELSE IF v.json = "null" THEN <<"None">>
              ELSE v.text)

\* The pre-processing that leaves the values of the row as they are.
pre_process_raw(parsed, is_object, cfg) ==
    IF cfg.jsonl_type_coercion_strategy = "envelope"
    THEN [ok |-> TRUE, dict |-> TRUE, row |-> (<<"record">> :> parsed)]
    ELSE [ok |-> TRUE, dict |-> is_object, row |-> parsed]

\* JSONLStream._pre_process: the row as it is under "any", with str() of
\* each of its values under "string", inside {"record": row} under
\* "envelope". Iterating a number raises a TypeError (ok is FALSE).
pre_process(parsed, is_object, cfg) ==
    IF cfg.jsonl_type_coercion_strategy = "any"
    THEN [ok |-> TRUE, dict |-> is_object, row |-> parsed]
    ELSE IF cfg.jsonl_type_coercion_strategy = "string"
    THEN IF is_object
         THEN [ok |-> TRUE, dict |-> TRUE,
               row |-> [k \in DOMAIN parsed |-> py_str(parsed[k])]]
         ELSE [ok |-> FALSE, dict |-> FALSE, row |-> parsed]
    ELSE [ok |-> TRUE, dict |-> TRUE, row |-> (<<"record">> :> parsed)]

\* JSONLStream.get_rows, the body of `for row in f` for line number n: a
\* line json.loads rejects is an error under "fail" and skipped otherwise;
\* a parsed line is pre-processed, annotated and yielded, and updating a
\* row that is no dict raises an AttributeError ("crash").
JSONLLine(line, n, file, cfg) ==
    IF ~line.valid
    THEN [outcome |-> IF cfg.jsonl_error_handling = "fail"
                      THEN "error" ELSE "skip",
          dict |-> FALSE, record |-> None]
    ELSE LET p == pre_process(Val(line.parsed), line.object, cfg)
         IN IF ~p.ok \/ (cfg.additional_info /\ ~p.dict)
            THEN [outcome |-> "crash", dict |-> FALSE, record |-> None]
            ELSE [outcome |-> "row", dict |-> p.dict,
                  record |-> Some(add_additional_info(p.row, file.name, n,
                                                      file.last_modified))]

\* The keys of a yielded row: the row's own and the provenance columns
\* add_additional_info put into it.
Keys(record) ==
    DOMAIN record.row
    \cup (IF IsNone(record.sdc) THEN {} ELSE DOMAIN SdcProperties)

\* JSONLStream._get_property: the property of a field under the coercion
\* strategy.
JSONLProperty(cfg) ==
    IF cfg.jsonl_type_coercion_strategy = "any"
    THEN Property(<<"null", "boolean", "integer", "number", "string",
                    "array", "object">>, "")
    ELSE IF cfg.jsonl_type_coercion_strategy = "string"
    THEN Property(<<"null", "string">>, "")
    ELSE Property(<<"null", "object">>, "")

\* _get_fields under "all", sampling like "first".
JSONLDiscoverSampling ==
    /\ pc = "Discovering"
    /\ config.file_type = "jsonl"
    /\ LET lines == Val(content).lines
           step(k) == JSONLLine(lines[k], k, Val(cur), config)
           stops == { k \in 1..Len(lines) : step(k).outcome # "skip" }
           first == CHOOSE k \in stops : \A j \in stops : k <= j
       IN IF stops = {}
          THEN /\ pc' = "Reading"
               /\ schema' = Some(FileStreamSchema(
                                    [f \in {} |-> JSONLProperty(config)],
                                    config))
               /\ UNCHANGED << error, msg >>
          ELSE IF step(first).outcome = "error"
          THEN /\ pc' = "Failed"
               /\ error' = "JSONDecodeError"
               /\ msg' = Some([file_name |-> Val(cur).name, line |-> first])
               /\ UNCHANGED schema
          ELSE IF step(first).outcome = "crash" \/ ~step(first).dict
          THEN /\ pc' = "Failed"
               /\ error' = "NotADict"
               /\ UNCHANGED << schema, msg >>
          ELSE /\ pc' = "Reading"
               /\ schema' = Some(FileStreamSchema(
                                    [f \in Keys(Val(step(first).record)) |->
                                        JSONLProperty(config)],
                                    config))
               /\ UNCHANGED << error, msg >>
    /\ UNCHANGED << selectVars, line_number, records, reader >>

\* JSONLStream.get_properties inside the stream initialization: under
\* "all" _get_fields raises NotImplementedError; under "first" the fields
\* are the keys of the first row get_rows yields, which reads the file up
\* to that row, with the errors of get_rows, and there is no field when
\* get_rows yields no row; iterating a row that is a number raises a
\* TypeError.
JSONLDiscover ==
    /\ pc = "Discovering"
    /\ config.file_type = "jsonl"
    /\ LET lines == Val(content).lines
           step(k) == JSONLLine(lines[k], k, Val(cur), config)
           stops == { k \in 1..Len(lines) : step(k).outcome # "skip" }
           first == CHOOSE k \in stops : \A j \in stops : k <= j
       IN IF config.jsonl_sampling_strategy = "all"
          THEN /\ pc' = "Failed"
               /\ error' = "NotImplemented"
               /\ UNCHANGED << schema, msg >>
          ELSE IF stops = {}
          THEN /\ pc' = "Reading"
               /\ schema' = Some(FileStreamSchema(
                                    [f \in {} |-> JSONLProperty(config)],
                                    config))
               /\ UNCHANGED << error, msg >>
          ELSE IF step(first).outcome = "error"
          THEN /\ pc' = "Failed"
               /\ error' = "JSONDecodeError"
               /\ msg' = Some([file_name |-> Val(cur).name, line |-> first])
               /\ UNCHANGED schema
          ELSE IF step(first).outcome = "crash" \/ ~step(first).dict
          THEN /\ pc' = "Failed"
               /\ error' = "NotADict"
               /\ UNCHANGED << schema, msg >>
          ELSE /\ pc' = "Reading"
               /\ schema' = Some(FileStreamSchema(
                                    [f \in Keys(Val(step(first).record)) |->
                                        JSONLProperty(config)],
                                    config))
               /\ UNCHANGED << error, msg >>
    /\ UNCHANGED << selectVars, line_number, records, reader >>

\* JSONLStream.get_rows, one iteration of `for row in f`, or its end.
JSONLNext ==
    /\ pc = "Reading"
    /\ config.file_type = "jsonl"
    /\ IF line_number >= Len(Val(content).lines)
       THEN /\ pc' = "Completed"
            /\ UNCHANGED << line_number, records, error, msg >>
       ELSE LET n == line_number + 1
                step == JSONLLine(Val(content).lines[n], n, Val(cur), config)
            IN /\ line_number' = n
               /\ IF step.outcome = "skip"
                  THEN UNCHANGED << pc, records, error, msg >>
                  ELSE IF step.outcome = "error"
                  THEN /\ pc' = "Failed"
                       /\ error' = "JSONDecodeError"
                       /\ msg' = Some([file_name |-> Val(cur).name,
                                       line |-> n])
                       /\ UNCHANGED records
                  ELSE IF step.outcome = "crash"
                  THEN /\ pc' = "Failed"
                       /\ error' = "NotADict"
                       /\ UNCHANGED << records, msg >>
                  ELSE /\ records' = Append(records, Val(step.record))
                       /\ UNCHANGED << pc, error, msg >>
    /\ UNCHANGED << selectVars, schema, reader >>

\* An Avro file: a schema of up to MaxFields fields and no datum or
\* MaxRows data.
InitAvro ==
    /\ config \in AvroConfigs
    /\ \E t \in {1, MaxTime} :
          cur = Some([name |-> <<"a", ".avro">>, last_modified |-> t])
    /\ \E types \in SeqUpTo(AvroTypes, MaxFields), n \in {0, MaxRows} :
          content = Some([fields |-> [i \in 1..Len(types) |->
                                        [name |-> AvroFieldNames[i],
                                         type |-> types[i]]],
                          rows |-> n])

\* The conversion that takes long for a number.
type_convert_wide(field_type) ==
    IF ~field_type.str THEN None
    ELSE IF field_type.name \in {"null", "boolean", "string"}
    THEN Some(field_type.name)
    ELSE IF field_type.name = "int" THEN Some("integer")
    ELSE IF field_type.name \in {"long", "float", "double"} THEN Some("number")
    ELSE IF field_type.name = "bytes" THEN Some("string")
    ELSE None

\* AvroStream._type_convert: the JSON schema type of an Avro type, or the
\* NotImplementedError (None here) for a type that is no string or is a
\* string other than the eight primitive names.
type_convert(field_type) ==
    IF ~field_type.str THEN None
    ELSE IF field_type.name \in {"null", "boolean", "string"}
    THEN Some(field_type.name)
    ELSE IF field_type.name \in {"int", "long"} THEN Some("integer")
    ELSE IF field_type.name \in {"float", "double"} THEN Some("number")
    ELSE IF field_type.name = "bytes" THEN Some("string")
    ELSE None

\* AvroStream.get_properties: under "convert" the converted type of every
\* field of the file's schema, None when a conversion raises; under
\* "envelope" the one field record.
AvroProperties(fields, cfg) ==
    IF cfg.avro_type_coercion_strategy = "convert"
    THEN IF \E i \in 1..Len(fields) : IsNone(type_convert(fields[i].type))
         THEN None
         ELSE Some([f \in { fields[i].name : i \in 1..Len(fields) } |->
                      LET i == CHOOSE j \in 1..Len(fields) :
                                   fields[j].name = f
                      IN Property(<<Val(type_convert(fields[i].type))>>, "")])
    ELSE Some(<<"record">> :> Property(<<"null", "object">>, ""))

\* The datum the reader gives for the n-th row of the file: a value for
\* every field of the schema.
Datum(fields, n) ==
    [f \in { fields[i].name : i \in 1..Len(fields) } |-> <<"v", n>>]

\* The pre-processing that envelops nothing.
avro_pre_process_bare(row, cfg) == row

\* AvroStream._pre_process: the row as it is under "convert", inside
\* {"record": row} under "envelope".
avro_pre_process(row, cfg) ==
    IF cfg.avro_type_coercion_strategy = "convert" THEN row
    ELSE (<<"record">> :> row)

\* AvroStream.get_properties inside the stream initialization.
AvroDiscover ==
    /\ pc = "Discovering"
    /\ config.file_type = "avro"
    /\ LET properties == AvroProperties(Val(content).fields, config)
       IN IF IsNone(properties)
          THEN /\ pc' = "Failed"
               /\ error' = "UnsupportedAvroType"
               /\ UNCHANGED schema
          ELSE /\ pc' = "Reading"
               /\ schema' = Some(FileStreamSchema(Val(properties), config))
               /\ UNCHANGED error
    /\ UNCHANGED << selectVars, line_number, records, reader, msg >>

\* AvroStream.get_rows, one iteration of `for row in reader`, or its end.
AvroNext ==
    /\ pc = "Reading"
    /\ config.file_type = "avro"
    /\ IF line_number >= Val(content).rows
       THEN /\ pc' = "Completed"
            /\ UNCHANGED << line_number, records >>
       ELSE /\ line_number' = line_number + 1
            /\ records' = Append(records,
                  add_additional_info(
                      avro_pre_process(Datum(Val(content).fields,
                                             line_number + 1), config),
                      Val(cur).name, line_number + 1, Val(cur).last_modified))
            /\ UNCHANGED pc
    /\ UNCHANGED << selectVars, schema, reader, error, msg >>

InitDecode ==
    /\ \/ InitDelimited
       \/ InitJSONL
       \/ InitAvro
    /\ InitDecodeCommon

NextDecode ==
    \/ DelimitedDiscover
    \/ DelimitedNext
    \/ JSONLDiscover
    \/ JSONLNext
    \/ AvroDiscover
    \/ AvroNext

SpecDecode == InitDecode /\ [][NextDecode]_vars

TypeOKDecode ==
    /\ pc \in {"Discovering", "Reading", "Completed", "Failed"}
    /\ config.file_type # "jsonl" => line_number = Len(records)
    /\ IsNone(msg) \/ pc = "Failed"

\* ------------------------------------------ the skipping of rows alone
\* The lines a file is made of, for the skipping.
SkipLines == { <<"a">>, <<"1">> }

\* The configurations of the skipping: more rows skipped than a file has
\* included.
SkipConfigs ==
    { [file_regex |-> None, additional_info |-> FALSE, start_date |-> None,
       delimited_header_skip |-> h, delimited_footer_skip |-> f]
      @@ DecoderDefaults : h \in 0..(MaxLines + 1), f \in 0..(MaxLines + 1) }

\* A delimited file of up to MaxLines + 1 lines is about to be read.
InitSkip ==
    /\ config \in SkipConfigs
    /\ cur = Some([name |-> <<"a", ".csv">>, last_modified |-> 1])
    /\ \E lines \in SeqUpTo(SkipLines, MaxLines + 1) :
          content = Some([lines |-> lines])
    /\ fs = << [name |-> Val(cur).name, type |-> "file", size |-> 1,
                mtime |-> 1] >>
    /\ state = None
    /\ pc = "Opening"
    /\ starting_replication_key_value = None
    /\ cursor_source = "none"
    /\ file_dict_list = <<>>
    /\ idx = 1
    /\ none_found = FALSE
    /\ none_synced = FALSE
    /\ yielded = <<>>
    /\ line_number = 0
    /\ records = <<>>
    /\ bookmark = None
    /\ error = "none"
    /\ warned = FALSE
    /\ prev = None
    /\ schema = None
    /\ reader = None
    /\ msg = None
    /\ io = <<>>

\* DelimitedStream._get_readers, the reader of the file: it is given the
\* list _skip_rows returns.
SkipRows ==
    /\ pc = "Opening"
    /\ pc' = "Skipped"
    /\ reader' = Some(NewReader(skip_rows(Val(content).lines, config), ","))
    /\ UNCHANGED << selectVars, line_number, records, error, schema, msg >>

SpecSkip == InitSkip /\ [][SkipRows]_vars

\* ------------------------- tap_file: the schema tallied from samples
\* The values of the rows get_rows yields: the texts of an integer, of a
\* number, of a boolean, some other text and the blank.
SampleValues == { <<"1">>, <<"1", ".", "5">>, <<"true">>, <<"x">>, <<>> }

\* The rows of a file: a value under the key x, and one row with a value
\* under a second key.
SampleRows ==
    { (<<"x">> :> v) : v \in SampleValues }
    \cup { (<<"x">> :> <<"1">>) @@ (<<"y">> :> <<"x">>) }

\* The keys of a row in the order of the dict.
KeysOf(row) ==
    IF <<"y">> \in DOMAIN row THEN << <<"x">>, <<"y">> >> ELSE << <<"x">> >>

\* int(value) and float(value) succeed on these texts.
IntTexts == { <<"1">> }
FloatTexts == { <<"1">>, <<"1", ".", "5">> }

\* FileStream.get_datatype: None for the blank, else the first of integer,
\* number and boolean the value can be coerced to, else string.
get_datatype(value) ==
    IF value = <<>> THEN None
    ELSE IF value \in IntTexts THEN Some("integer")
    ELSE IF value \in FloatTexts THEN Some("number")
    ELSE IF value \in { <<"true">>, <<"false">> } THEN Some("boolean")
    ELSE Some("string")

\* FileStream.count_samples: for every key of a sample, the number of the
\* samples' values of each datatype that was found under it.
count_samples(samples) ==
    LET keys == UNION { DOMAIN samples[i] : i \in 1..Len(samples) }
        found(key) == { i \in 1..Len(samples) :
                          /\ key \in DOMAIN samples[i]
                          /\ ~IsNone(get_datatype(samples[i][key])) }
    IN [key \in keys |->
          [datatype \in { Val(get_datatype(samples[i][key])) :
                            i \in found(key) } |->
              Cardinality({ i \in found(key) :
                              Val(get_datatype(samples[i][key])) = datatype })]]

\* value.get(datatype, 0).
Get(value, datatype) ==
    IF datatype \in DOMAIN value THEN value[datatype] ELSE 0

\* The choice that takes the narrower of integer and number.
value_type_narrow(value) ==
    IF Cardinality(DOMAIN value) = 1
    THEN CHOOSE t \in DOMAIN value : TRUE
    ELSE IF /\ Cardinality(DOMAIN value) = 2
            /\ Get(value, "integer") > 0
            /\ Get(value, "number") > 0
    THEN "integer"
    ELSE "string"

\* FileStream.schema, the dominant data type of a key: the one that was
\* counted when there is one only; number when integer and number were
\* counted and nothing else; string otherwise.
value_type(value) ==
    IF Cardinality(DOMAIN value) = 1
    THEN IF Get(value, "integer") > 0 THEN "integer"
         ELSE IF Get(value, "number") > 0 THEN "number"
         ELSE IF Get(value, "boolean") > 0 THEN "boolean"
         ELSE "string"
    ELSE IF /\ Cardinality(DOMAIN value) = 2
            /\ Get(value, "integer") > 0
            /\ Get(value, "number") > 0
    THEN "number"
    ELSE "string"

\* FileStream.schema: every sampled key with the type ["null", value_type].
SampledSchema(samples) ==
    LET properties == count_samples(samples)
    IN [key \in DOMAIN properties |->
          Property(<<"null", value_type(properties[key])>>, "")]

\* FileStream.convert_value: None for the blank; int(), float() or str()
\* of the value, or its truth; the ValueError of int(), of float() or of
\* a value that is no boolean (ok is FALSE).
convert_value(value, convert_to) ==
    IF value = <<>> THEN [ok |-> TRUE, v |-> JsonValue("null", <<>>)]
    ELSE IF convert_to = "integer"
    THEN [ok |-> value \in IntTexts, v |-> JsonValue("integer", value)]
    ELSE IF convert_to = "number"
    THEN [ok |-> value \in FloatTexts, v |-> JsonValue("number", value)]
    ELSE IF convert_to = "boolean"
    THEN [ok |-> value \in { <<"true">>, <<"false">> },
          v |-> JsonValue("boolean", value)]
    ELSE [ok |-> TRUE, v |-> JsonValue("string", value)]

\* list.remove("null") when "null" is in the list.
remove_null(convert_to) ==
    IF \E i \in 1..Len(convert_to) : convert_to[i] = "null"
    THEN LET i == CHOOSE k \in 1..Len(convert_to) :
                      /\ convert_to[k] = "null"
                      /\ \A j \in 1..(k - 1) : convert_to[j] # "null"
         IN SubSeq(convert_to, 1, i - 1)
            \o SubSeq(convert_to, i + 1, Len(convert_to))
    ELSE convert_to

\* FileStream.convert_row over the keys of the row in their order: the
\* type of a key is the list in schema["properties"][key]["type"], from
\* which "null" is removed in place, and its first element after that;
\* string for a key the schema lacks. `properties` is the schema as the
\* conversion leaves it.
RECURSIVE convert_row(_, _, _)
convert_row(row, keys, properties) ==
    IF keys = <<>> THEN [ok |-> TRUE, row |-> row, properties |-> properties]
    ELSE LET key == Head(keys)
             convert_to == IF key \in DOMAIN properties
                           THEN remove_null(properties[key].type)
                           ELSE <<"string">>
             removed == IF key \in DOMAIN properties
                        THEN [properties EXCEPT ![key].type = convert_to]
                        ELSE properties
             converted == convert_value(row[key], convert_to[1])
         IN IF ~converted.ok
            THEN [ok |-> FALSE, row |-> row, properties |-> removed]
            ELSE convert_row([row EXCEPT ![key] = converted.v], Tail(keys),
                             removed)

\* get_samples(99, 20) has returned up to MaxLines samples of the rows of
\* a file; no sample means that the file has no row.
InitSample ==
    /\ config \in { [file_regex |-> None, additional_info |-> FALSE,
                      start_date |-> None] @@ DecoderDefaults }
    /\ cur = Some([name |-> <<"a", ".csv">>, last_modified |-> 1])
    /\ \E samples \in SeqUpTo(SampleRows, MaxLines) :
          content = Some([samples |-> samples])
    /\ fs = << [name |-> Val(cur).name, type |-> "file", size |-> 1,
                mtime |-> 1] >>
    /\ state = None
    /\ pc = "Sampling"
    /\ starting_replication_key_value = None
    /\ cursor_source = "none"
    /\ file_dict_list = <<>>
    /\ idx = 1
    /\ none_found = FALSE
    /\ none_synced = FALSE
    /\ yielded = <<>>
    /\ line_number = 0
    /\ records = <<>>
    /\ bookmark = None
    /\ error = "none"
    /\ warned = FALSE
    /\ prev = None
    /\ schema = None
    /\ reader = None
    /\ msg = None
    /\ io = <<>>

\* FileStream.schema, a cached property, on its first use.
EstablishSchema ==
    /\ pc = "Sampling"
    /\ schema' = Some(SampledSchema(Val(content).samples))
    /\ pc' = "Converting"
    /\ UNCHANGED << selectVars, line_number, records, error, reader, msg >>

\* FileStream.get_records, one iteration: the next row of get_rows, which
\* is the first sample when it is the first row, is converted against the
\* schema and yielded; a ValueError of the conversion ends the run.
ConvertRow ==
    /\ pc = "Converting"
    /\ Val(content).samples # <<>>
    /\ line_number <= MaxRows
    /\ \E row \in SampleRows :
          /\ line_number = 0 => row = Val(content).samples[1]
          /\ LET converted == convert_row(row, KeysOf(row), Val(schema))
             IN /\ schema' = Some(converted.properties)
                /\ line_number' = line_number + 1
                /\ IF converted.ok
                   THEN /\ records' = Append(records,
                                             [row |-> converted.row,
                                              sdc |-> None])
                        /\ UNCHANGED << pc, error >>
                   ELSE /\ pc' = "Failed"
                        /\ error' = "ValueError"
                        /\ UNCHANGED records
    /\ UNCHANGED << selectVars, reader, msg >>

\* get_rows is exhausted: a file has all the rows that were sampled from
\* it.
EndRows ==
    /\ pc = "Converting"
    /\ Len(Val(content).samples) <= 1
    /\ Val(content).samples # <<>> => line_number >= 1
    /\ pc' = "Completed"
    /\ UNCHANGED << selectVars, line_number, records, error, schema, reader,
                    msg >>

NextSample ==
    \/ EstablishSchema
    \/ ConvertRow
    \/ EndRows

SpecSample == InitSample /\ [][NextSample]_vars

\* --------------------------------- the construction of the stream alone
\* The stream names of a configuration and of the bookmarks of a state.
StreamNames == { "s", "t" }

\* tap.state["bookmarks"], by stream name the replication_key_value of the
\* bookmark; the empty state has none, and a state that was loaded has the
\* bookmarks of some streams.
TapStates ==
    UNION { [D -> { isoformat(t) : t \in 1..MaxTime }] :
            D \in SUBSET StreamNames }

\* A tap is about to make its stream: its state, its configuration with
\* the name of the stream, and a storage location with no file or one.
InitConstruct ==
    /\ \E c \in Configs, n \in StreamNames :
          config = [stream_name |-> n] @@ c
    /\ state \in TapStates
    /\ fs \in { <<>>,
                 << [name |-> <<"a", "/", "a">>, type |-> "file",
                     size |-> 1, mtime |-> 1, rows |-> 0] >> }
    /\ pc = "Idle"
    /\ starting_replication_key_value = None
    /\ cursor_source = "none"
    /\ file_dict_list = <<>>
    /\ idx = 1
    /\ none_found = TRUE
    /\ none_synced = TRUE
    /\ yielded = <<>>
    /\ cur = None
    /\ line_number = 0
    /\ records = <<>>
    /\ bookmark = None
    /\ error = "none"
    /\ warned = FALSE
    /\ prev = None
    /\ schema = None
    /\ content = None
    /\ reader = None
    /\ msg = None
    /\ io = <<>>

\* The construction that prefers a configured start_date to the state.
ConstructStartDateFirst ==
    /\ pc = "Idle"
    /\ LET stream_name == config.stream_name
           missing == state # <<>> /\ stream_name \notin DOMAIN state
           start == IF ~IsNone(config.start_date) THEN config.start_date
                    ELSE IF state # <<>> /\ ~missing
                    THEN Some(state[stream_name])
                    ELSE None
           files == get_files(fs, config, start)
           fieldnames == [i \in 1..Len(files) |-> HeaderOf(files[i].name)]
       IN /\ starting_replication_key_value' = start
          /\ cursor_source' = IF ~IsNone(config.start_date) THEN "start_date"
                              ELSE IF state # <<>> THEN "state" ELSE "none"
          /\ IF missing
             THEN /\ pc' = "Failed"
                  /\ error' = "NoStateForStream"
                  /\ schema' = None
             ELSE IF ListFiles(fs, config) = <<>>
             THEN /\ pc' = "Failed"
                  /\ error' = "NoFilesFound"
                  /\ schema' = None
             ELSE /\ schema' = Some(FileStreamSchema(
                                       DelimitedProperties(fieldnames), config))
                  /\ IF ~(IsNone(start) \/ config.additional_info)
                     THEN /\ pc' = "Failed"
                          /\ error' = "AdditionalInfoRequired"
                     ELSE /\ pc' = "Listing"
                          /\ error' = "none"
    /\ UNCHANGED << fs, config, state, file_dict_list, idx, none_found,
                    none_synced, yielded, cur, line_number, records,
                    bookmark, warned, prev, decVars >>

\* FileStream.__init__ with the tap's state as it is loaded: when the
\* state is not empty, the starting replication key value is the
\* replication_key_value of the bookmark of config["stream_name"], and a
\* state without that bookmark is a RuntimeError; when it is empty, it is
\* config.get("start_date"); the stream initialization and the
\* additional_info check follow.
Construct ==
    /\ pc = "Idle"
    /\ LET stream_name == config.stream_name
           missing == state # <<>> /\ stream_name \notin DOMAIN state
           start == IF state # <<>>
                    THEN IF missing THEN None ELSE Some(state[stream_name])
                    ELSE config.start_date
           files == get_files(fs, config, start)
           fieldnames == [i \in 1..Len(files) |-> HeaderOf(files[i].name)]
       IN /\ starting_replication_key_value' = start
          /\ cursor_source' = IF state # <<>> THEN "state"
                              ELSE IF ~IsNone(config.start_date)
                              THEN "start_date"
                              ELSE "none"
          /\ IF missing
             THEN /\ pc' = "Failed"
                  /\ error' = "NoStateForStream"
                  /\ schema' = None
             ELSE IF ListFiles(fs, config) = <<>>
             THEN /\ pc' = "Failed"
                  /\ error' = "NoFilesFound"
                  /\ schema' = None
             ELSE /\ schema' = Some(FileStreamSchema(
                                       DelimitedProperties(fieldnames), config))
                  /\ IF ~(IsNone(start) \/ config.additional_info)
                     THEN /\ pc' = "Failed"
                          /\ error' = "AdditionalInfoRequired"
                     ELSE /\ pc' = "Listing"
                          /\ error' = "none"
    /\ UNCHANGED << fs, config, state, file_dict_list, idx, none_found,
                    none_synced, yielded, cur, line_number, records,
                    bookmark, warned, prev, decVars >>

SpecConstruct == InitConstruct /\ [][Construct]_vars

\* ------------------------ the pipeline over the files of a listing
\* The names of the files of the pipeline: one whose delimiter is
\* detected and one whose delimiter is not.
PipeNames == { <<"a", ".csv">>, <<"b", ".txt">> }

\* The configurations of the pipeline, one stream of each file type, with
\* the provenance columns and without cursor.
PipelineConfigs ==
    { [file_regex |-> None, additional_info |-> TRUE, start_date |-> None,
       file_type |-> "delimited", delimited_delimiter |-> d,
       delimited_error_handling |-> h] @@ DecoderDefaults :
        d \in {"detect", ","}, h \in {"fail", "ignore"} }
    \cup { [file_regex |-> None, additional_info |-> TRUE,
            start_date |-> None, file_type |-> "jsonl",
            jsonl_error_handling |-> h, jsonl_sampling_strategy |-> g]
           @@ DecoderDefaults :
             h \in {"fail", "ignore"}, g \in {"first", "all"} }
    \cup { [file_regex |-> None, additional_info |-> TRUE,
            start_date |-> None, file_type |-> "avro",
            avro_type_coercion_strategy |-> c] @@ DecoderDefaults :
             c \in {"convert", "envelope"} }

\* What a file of the pipeline holds, the header of a delimited file
\* apart: up to MaxLines rows, each one that decodes ("ok") or one that
\* does not ("bad": a delimited row that does not align with the header, a
\* line that is no JSON); an Avro file has data only, and a schema whose
\* one field has a type that is converted or one that is not.
Bodies(cfg) ==
    IF cfg.file_type = "avro"
    THEN { [rows |-> [i \in 1..n |-> "ok"], supported |-> b] :
             n \in 0..MaxLines, b \in BOOLEAN }
    ELSE { [rows |-> r, supported |-> TRUE] :
             r \in SeqUpTo({"ok", "bad"}, MaxLines) }

\* The listings of the pipeline: up to MaxFiles files of different names.
PipeListings ==
    { l \in SeqUpTo([name : PipeNames, type : {"file"}, size : {1},
                     mtime : {1, MaxTime}], MaxFiles) :
        \A i, j \in 1..Len(l) : l[i].name = l[j].name => i = j }

\* A tap is about to make its stream over a storage location.
InitPipeline ==
    /\ config \in PipelineConfigs
    /\ fs \in PipeListings
    /\ \E bodies \in [{ fs[i].name : i \in 1..Len(fs) } -> Bodies(config)] :
          content = Some(bodies)
    /\ state = None
    /\ pc = "Idle"
    /\ starting_replication_key_value = None
    /\ cursor_source = "none"
    /\ file_dict_list = <<>>
    /\ idx = 1
    /\ none_found = TRUE
    /\ none_synced = TRUE
    /\ yielded = <<>>
    /\ cur = None
    /\ line_number = 0
    /\ records = <<>>
    /\ bookmark = None
    /\ error = "none"
    /\ warned = FALSE
    /\ prev = None
    /\ schema = None
    /\ reader = None
    /\ msg = None
    /\ io = <<>>

\* What the pipeline leaves alone.
pipeVars == << fs, config, state, starting_replication_key_value,
              cursor_source, warned, prev, content, reader, msg >>

\* The storage operations: the listing, the opening and the closing of a
\* file.
Find == <<"find">>
Open(name) == <<"open", name>>
Close(name) == <<"close", name>>

\* The body of a file of the storage location.
Body(name) == Val(content)[name]

\* The Avro schema of a file of the pipeline.
AvroFieldsOf(name) ==
    << [name |-> <<"f">>,
        type |-> IF Body(name).supported
                 THEN [str |-> TRUE, name |-> "string"]
                 ELSE [str |-> FALSE, name |-> "record"]] >>

\* FileStream.__init__ with no state and no start_date, up to the first
\* use of the storage: the stream initialization asks for the schema, and
\* get_properties raises under the sampling strategy "all", has its one
\* field without reading a file under the Avro strategy "envelope", and
\* otherwise starts to iterate get_files.
PipelineConstruct ==
    /\ pc = "Idle"
    /\ IF /\ config.file_type = "jsonl"
          /\ config.jsonl_sampling_strategy = "all"
       THEN /\ pc' = "Failed"
            /\ error' = "NotImplemented"
            /\ UNCHANGED schema
       ELSE IF /\ config.file_type = "avro"
               /\ config.avro_type_coercion_strategy = "envelope"
       THEN /\ pc' = "SyncListing"
            /\ schema' = Some(FileStreamSchema(
                                 Val(AvroProperties(<<>>, config)), config))
            /\ UNCHANGED error
       ELSE /\ pc' = "DiscoverListing"
            /\ UNCHANGED << error, schema >>
    /\ UNCHANGED << pipeVars, file_dict_list, idx, none_found, none_synced,
                    yielded, cur, line_number, records, bookmark, io >>

\* get_files up to its second loop, at discovery and at sync: the storage
\* location is listed, the entries are filtered and sorted.
PipelineList ==
    /\ pc \in {"DiscoverListing", "SyncListing"}
    /\ io' = Append(io, Find)
    /\ LET found == ListFiles(fs, config)
       IN /\ none_found' = (found = <<>>)
          /\ file_dict_list' = sorted(found)
    /\ idx' = 1
    /\ none_synced' = TRUE
    /\ yielded' = <<>>
    /\ pc' = IF pc = "DiscoverListing" THEN "Discovering" ELSE "Syncing"
    /\ UNCHANGED << pipeVars, cur, line_number, records, bookmark, error,
                    schema >>

\* `with self.fs_manager.filesystem.open(...) as f:` is entered, and left.
with_enter(log, name) == Append(log, Open(name))
with_exit(log, name) == Append(log, Close(name))

\* The generator that is never finalised.
finalize_never(log, name) == log

\* A generator that is suspended inside the with statement of a file is
\* dropped by its consumer: it is finalised when its last reference goes,
\* GeneratorExit is raised at its yield and the with statement is left.
finalize(log, name) == with_exit(log, name)

\* DelimitedStream._skip_rows: the file is opened, read into a list and
\* closed.
skip_rows_io(log, name) == with_exit(with_enter(log, name), name)

\* The error of the detection raised after the reader's file was read.
ambiguous_after_skip(log, name) == skip_rows_io(log, name)

\* _get_readers raises the error of the detection before it makes the
\* reader of the file: _skip_rows has not been called for it.
ambiguous(log, name) == log

\* The properties get_properties has gathered from the files get_files
\* yielded to it: the fieldnames of the delimited files, the converted
\* fields of the Avro files; the JSON Lines sample has found no row.
Gathered(files) ==
    IF config.file_type = "delimited"
    THEN DelimitedProperties([i \in 1..Len(files) |->
                                HeaderOf(files[i].name)])
    ELSE IF config.file_type = "avro"
    THEN Val(AvroProperties([i \in 1..Len(files) |->
                               AvroFieldsOf(files[i].name)[1]], config))
    ELSE [f \in {} |-> JSONLProperty(config)]

\* get_properties, the next file get_files yields to it. Delimited: the
\* delimiter is detected from the name, which may fail, and the reader is
\* made of what _skip_rows returns. JSON Lines, sampling the first row of
\* get_rows: the file is opened and read up to its first row, where the
\* generator is dropped, or up to the line that fails, or to its end.
\* Avro under "convert": the file is opened and the type of its fields
\* converted, which may fail, while the generator of the readers is
\* suspended inside the with statement.
DiscoverFile ==
    /\ pc = "Discovering"
    /\ idx <= Len(file_dict_list)
    /\ LET file == file_dict_list[idx]
           name == file.name
           rows == Body(name).rows
           stops == { k \in 1..Len(rows) :
                        \/ rows[k] = "ok"
                        \/ config.jsonl_error_handling = "fail" }
           first == CHOOSE k \in stops : \A j \in stops : k <= j
       IN /\ yielded' = Append(yielded, file)
          /\ none_synced' = FALSE
          /\ IF config.file_type = "delimited"
             THEN IF IsNone(DetectDelimiter(name, config))
                  THEN /\ pc' = "Failed"
                       /\ error' = "AmbiguousDelimiter"
                       /\ io' = ambiguous(io, name)
                       /\ UNCHANGED << idx, schema >>
                  ELSE /\ io' = skip_rows_io(io, name)
                       /\ idx' = idx + 1
                       /\ UNCHANGED << pc, error, schema >>
             ELSE IF config.file_type = "jsonl"
             THEN IF stops = {}
                  THEN /\ io' = with_exit(with_enter(io, name), name)
                       /\ idx' = idx + 1
                       /\ UNCHANGED << pc, error, schema >>
                  ELSE IF rows[first] = "bad"
                  THEN /\ io' = with_exit(with_enter(io, name), name)
                       /\ pc' = "Failed"
                       /\ error' = "JSONDecodeError"
                       /\ UNCHANGED << idx, schema >>
                  ELSE /\ io' = finalize(with_enter(io, name), name)
                       /\ schema' = Some(FileStreamSchema(
                                            <<"x">> :> JSONLProperty(config),
                                            config))
                       /\ pc' = "SyncListing"
                       /\ UNCHANGED << idx, error >>
             ELSE IF IsNone(AvroProperties(AvroFieldsOf(name), config))
                  THEN /\ io' = finalize(with_enter(io, name), name)
                       /\ pc' = "Failed"
                       /\ error' = "UnsupportedAvroType"
                       /\ UNCHANGED << idx, schema >>
                  ELSE /\ io' = with_exit(with_enter(io, name), name)
                       /\ idx' = idx + 1
                       /\ UNCHANGED << pc, error, schema >>
    /\ UNCHANGED << pipeVars, file_dict_list, none_found, cur, line_number,
                    records, bookmark >>

\* get_properties, get_files is exhausted: it raises when it found no
\* file; otherwise the schema is made of the properties gathered, and the
\* additional_info check of FileStream.__init__ passes without cursor.
DiscoverEnd ==
    /\ pc = "Discovering"
    /\ idx > Len(file_dict_list)
    /\ IF none_found
       THEN /\ pc' = "Failed"
            /\ error' = "NoFilesFound"
            /\ UNCHANGED schema
       ELSE /\ pc' = "SyncListing"
            /\ schema' = Some(FileStreamSchema(Gathered(yielded), config))
            /\ UNCHANGED error
    /\ UNCHANGED << pipeVars, file_dict_list, idx, none_found, none_synced,
                    yielded, cur, line_number, records, bookmark, io >>

\* get_rows, the next file get_files yields to it: the reader of a
\* delimited file is made as at discovery; a JSON Lines or Avro file is
\* opened and stays open while its rows are read.
OpenFile ==
    /\ pc = "Syncing"
    /\ IsNone(cur)
    /\ idx <= Len(file_dict_list)
    /\ LET file == file_dict_list[idx]
       IN /\ yielded' = Append(yielded, file)
          /\ none_synced' = FALSE
          /\ IF config.file_type = "delimited"
             THEN IF IsNone(DetectDelimiter(file.name, config))
                  THEN /\ pc' = "Failed"
                       /\ error' = "AmbiguousDelimiter"
                       /\ io' = ambiguous(io, file.name)
                       /\ UNCHANGED cur
                  ELSE /\ io' = skip_rows_io(io, file.name)
                       /\ cur' = Some(file)
                       /\ UNCHANGED << pc, error >>
             ELSE /\ io' = with_enter(io, file.name)
                  /\ cur' = Some(file)
                  /\ UNCHANGED << pc, error >>
    /\ line_number' = 0
    /\ UNCHANGED << pipeVars, file_dict_list, idx, none_found, records,
                    bookmark, schema >>

\* get_rows, one iteration of the row loop of the current file. A
\* delimited row that does not align is an error under "fail" and is
\* yielded as it is under "ignore"; a line that is no JSON is counted,
\* and is an error under "fail", raised inside the with statement, and
\* skipped under "ignore"; every other row is annotated and yielded, and
\* the harness moves the bookmark.
NextRow ==
    /\ pc = "Syncing"
    /\ ~IsNone(cur)
    /\ line_number < Len(Body(Val(cur).name).rows)
    /\ LET name == Val(cur).name
           n == line_number + 1
           bad == Body(name).rows[n] = "bad"
           record == add_additional_info(<<name, n>>, name, n,
                                         Val(cur).last_modified)
       IN IF bad /\ config.file_type = "delimited"
                /\ config.delimited_error_handling = "fail"
          THEN /\ pc' = "Failed"
               /\ error' = "MalformedRow"
               /\ UNCHANGED << line_number, records, bookmark, io >>
          ELSE IF bad /\ config.file_type = "jsonl"
          THEN /\ line_number' = n
               /\ IF config.jsonl_error_handling = "fail"
                  THEN /\ pc' = "Failed"
                       /\ error' = "JSONDecodeError"
                       /\ io' = with_exit(io, name)
                  ELSE UNCHANGED << pc, error, io >>
               /\ UNCHANGED << records, bookmark >>
          ELSE /\ line_number' = n
               /\ records' = Append(records, record)
               /\ bookmark' = IncrementState(bookmark, record)
               /\ UNCHANGED << pc, error, io >>
    /\ UNCHANGED << pipeVars, file_dict_list, idx, none_found, none_synced,
                    yielded, cur, schema >>

\* get_rows, the rows of the current file are exhausted: the with
\* statement of a JSON Lines or Avro file is left.
CloseFile ==
    /\ pc = "Syncing"
    /\ ~IsNone(cur)
    /\ line_number = Len(Body(Val(cur).name).rows)
    /\ io' = IF config.file_type = "delimited" THEN io
             ELSE with_exit(io, Val(cur).name)
    /\ cur' = None
    /\ idx' = idx + 1
    /\ UNCHANGED << pipeVars, pc, file_dict_list, none_found, none_synced,
                    yielded, line_number, records, bookmark, error, schema >>

\* The end of get_files that raises nothing.
EndSyncSilent ==
    /\ pc = "Syncing"
    /\ IsNone(cur)
    /\ idx > Len(file_dict_list)
    /\ pc' = "Completed"
    /\ UNCHANGED << pipeVars, file_dict_list, idx, none_found, none_synced,
                    yielded, cur, line_number, records, bookmark, schema,
                    io, error >>

\* get_rows, get_files is exhausted: it raises when it found no file;
\* otherwise the run is complete.
EndSync ==
    /\ pc = "Syncing"
    /\ IsNone(cur)
    /\ idx > Len(file_dict_list)
    /\ IF none_found
       THEN /\ pc' = "Failed"
            /\ error' = "NoFilesFound"
       ELSE /\ pc' = "Completed"
            /\ UNCHANGED error
    /\ UNCHANGED << pipeVars, file_dict_list, idx, none_found, none_synced,
                    yielded, cur, line_number, records, bookmark, schema,
                    io >>

NextPipeline ==
    \/ PipelineConstruct
    \/ PipelineList
    \/ DiscoverFile
    \/ DiscoverEnd
    \/ OpenFile
    \/ NextRow
    \/ CloseFile
    \/ EndSync

\* The harness pulls the records of the stream until the stream ends or
\* raises.
SpecPipeline ==
    InitPipeline /\ [][NextPipeline]_vars /\ WF_vars(NextPipeline)

\* ------------------------------------------------- vocabulary of the claims

\* The position of a file name in the listing.
Pos(name) == CHOOSE i \in 1..Len(fs) : fs[i].name = name

\* The listed entries that are files, are not empty and match file_regex
\* (as re.match sees the entry's name) when one is configured.
Candidates ==
    { e \in Range(fs) :
        /\ e.type # "directory"
        /\ e.size # 0
        /\ IsNone(config.file_regex) \/ re_match(Val(config.file_regex), e.name) }

\* The candidates that are not older than the starting cursor.
NotOlder(e) ==
    \/ IsNone(starting_replication_key_value)
    \/ e.mtime >= strptime(Val(starting_replication_key_value))

YieldedNames == { yielded[i].name : i \in 1..Len(yielded) }

\* get_files has run to its end in this run.
Exhausted ==
    /\ pc \in {"Completed", "Failed"}
    /\ error # "AdditionalInfoRequired"

\* The bookmark the run started from.
StateAtStart ==
    IF cursor_source = "state" THEN starting_replication_key_value ELSE None

\* The names of the files a record of this run was read from.
EmittedNames == { records[i].row[1] : i \in 1..Len(records) }

\* ----------------------------------------------------------------- claims
\* C1: whatever the listing order, the files get_files yields are in
\* ascending order of last_modified, and files with equal last_modified are
\* yielded in the order the listing returned them.
ThmC1 ==
    \A i, j \in 1..Len(yielded) :
        i < j =>
            /\ yielded[i].last_modified <= yielded[j].last_modified
            /\ yielded[i].last_modified = yielded[j].last_modified
                 => Pos(yielded[i].name) < Pos(yielded[j].name)

\* The listing returned the newer file first and get_files yielded both.
WitC1 ==
    /\ pc = "Completed"
    /\ Len(yielded) = 2
    /\ Pos(yielded[1].name) > Pos(yielded[2].name)
    /\ yielded[1].last_modified < yielded[2].last_modified

CexC3 ==
    ( /\ pc = "Completed"
      /\ cursor_source = "state"
      /\ ~IsNone(prev)
      /\ Val(prev).intact
      /\ Val(prev).len = Len(fs) )
    => records = <<>>

\* The rows of the files added since the previous completed run that
\* get_files can select.
NewRows ==
    { <<fs[i].name, k>> : i \in (Val(prev).len + 1)..Len(fs), k \in 1..MaxRows }
    \cap { <<e.name, k>> : e \in Candidates, k \in 1..MaxRows }
    \cap { r \in Names \X (1..MaxRows) : r[2] <= EntryOf(r[1]).rows }

\* C4 (as claimed): after a first run without cursor, and files with
\* strictly newer last_modified added since, the run started from the first
\* run's bookmark emits exactly the rows of the added files, once each.
CexC4 ==
    ( /\ pc = "Completed"
      /\ cursor_source = "state"
      /\ ~IsNone(prev)
      /\ Val(prev).intact
      /\ IsNone(Val(prev).start)
      /\ Val(prev).len < Len(fs)
      /\ \A i \in 1..Val(prev).len : \A j \in (Val(prev).len + 1)..Len(fs) :
            fs[i].mtime < fs[j].mtime )
    => /\ { records[i].row : i \in 1..Len(records) } = NewRows
       /\ Len(records) = Cardinality(NewRows)

ThmC6 ==
    [][ /\ ~IsNone(state) =>
            /\ ~IsNone(state')
            /\ strptime(Val(state')) >= strptime(Val(state))
        /\ (pc = "Selecting" /\ pc' = "Completed" /\ yielded = <<>>)
            => state' = state ]_vars

\* A run that started from a persisted cursor completed with a greater one.
WitC6 ==
    /\ pc = "Completed"
    /\ cursor_source = "state"
    /\ strptime(Val(state)) > strptime(Val(starting_replication_key_value))

\* C7 (as claimed): the cursor of a completed run is the maximum
\* last_modified of the files selected in the run, and the prior cursor when
\* no file was selected.
CexC7 ==
    pc = "Completed" =>
        IF yielded = <<>>
        THEN state = StateAtStart
        ELSE state = Some(isoformat(
                 SeqMax([i \in 1..Len(yielded) |-> yielded[i].last_modified])))

\* The last_modified values of the selected files from which a record with
\* the _sdc_last_modified column was emitted.
KeyedTimes ==
    { yielded[i].last_modified : i \in
        { k \in 1..Len(yielded) :
            \E m \in 1..Len(records) :
                /\ records[m].row[1] = yielded[k].name
                /\ ~IsNone(records[m].sdc) } }

\* C7 (amended): the cursor of a completed run is the maximum last_modified
\* of the selected files from which a record carrying _sdc_last_modified was
\* emitted, and the prior cursor when there is no such file.
ThmC7 ==
    pc = "Completed" =>
        IF KeyedTimes = {}
        THEN state = StateAtStart
        ELSE /\ ~IsNone(state)
             /\ Val(state).off = 0
             /\ Val(state).wall \in KeyedTimes
             /\ \A t \in KeyedTimes : t <= Val(state).wall

\* A completed run selected two files with records, and its newest selected
\* file had no data row.
WitC7 ==
    /\ pc = "Completed"
    /\ Len(records) >= 1
    /\ \E i \in 1..Len(yielded) :
          /\ EntryOf(yielded[i].name).rows = 0
          /\ \A t \in KeyedTimes : t < yielded[i].last_modified

\* The entries get_files is to yield: candidates not older than the cursor.
Selectable == { e \in Candidates : NotOlder(e) }

CexC9 ==
    ~IsNone(config.file_regex) =>
        /\ \A i \in 1..Len(yielded) :
              re_match(Val(config.file_regex), Basename(yielded[i].name))
        /\ \A m \in 1..Len(records) :
              ~IsNone(records[m].sdc) =>
                  re_match(Val(config.file_regex),
                           Basename(Val(records[m].sdc).file_name))

\* C9 (amended): with file_regex configured, every selected file, and the
\* _sdc_file_name of every record, is a full path the pattern matches from
\* its beginning.
ThmC9 ==
    ~IsNone(config.file_regex) =>
        /\ \A i \in 1..Len(yielded) :
              re_match(Val(config.file_regex), yielded[i].name)
        /\ \A m \in 1..Len(records) :
              ~IsNone(records[m].sdc) =>
                  re_match(Val(config.file_regex),
                           Val(records[m].sdc).file_name)

\* A record was emitted from a file whose path the pattern matches while
\* its basename does not, and a file whose basename alone matches was left
\* out.
WitC9 ==
    /\ ~IsNone(config.file_regex)
    /\ \E m \in 1..Len(records) :
          /\ ~IsNone(records[m].sdc)
          /\ ~re_match(Val(config.file_regex),
                       Basename(Val(records[m].sdc).file_name))
    /\ \E e \in Range(fs) :
          /\ e.type = "file" /\ e.size # 0
          /\ re_match(Val(config.file_regex), Basename(e.name))
          /\ e.name \notin YieldedNames
          /\ pc = "Completed"

DataFields == DOMAIN Val(schema) \ DOMAIN SdcProperties

\* The token is in the file name; the file name ends with it.
Contains(name, token) == \E i \in 1..Len(name) : name[i] = token
HasExtension(name, token) == name # <<>> /\ name[Len(name)] = token

\* The delimiter the stream chose for the file once its reader was made, or
\* None when making the reader failed for the delimiter.
Chosen ==
    IF error = "AmbiguousDelimiter" THEN None
    ELSE Some(Val(reader).delimiter)

FileList == skip_rows(Val(content).lines, config)
LineInFile(k) == k + config.delimited_header_skip

\* The header: the first line the reader is given, as its delimiter cuts
\* it.
ParsedHeader == csv_row(FileList[1], Val(reader).delimiter)

\* The rows: the later lines the reader is given, as its delimiter cuts
\* them, each with its position among the lines given; a blank line is no
\* row.
ParsedRows ==
    SelectSeq([i \in 1..(Len(FileList) - 1) |->
                  [at  |-> i + 1,
                   row |-> csv_row(FileList[i + 1], Val(reader).delimiter)]],
              LAMBDA x : x.row # <<>>)

\* The positions of the rows whose number of fields is not the header's.
Misaligned ==
    { m \in 1..Len(ParsedRows) : Len(ParsedRows[m].row) # Len(ParsedHeader) }

FirstMisaligned == CHOOSE m \in Misaligned : \A k \in Misaligned : m <= k

\* The record of a row under "ignore": the columns the row has a value for
\* hold it, the trailing columns it lacks hold null, and the values beyond
\* the header are kept together under the one key None.
Kept(d, row) ==
    /\ DOMAIN d = Range(ParsedHeader)
                    \cup (IF Len(row) > Len(ParsedHeader) THEN {None} ELSE {})
    /\ \A i \in 1..Len(ParsedHeader) :
          d[ParsedHeader[i]] = IF i <= Len(row) THEN row[i] ELSE None
    /\ Len(row) > Len(ParsedHeader) =>
          d[None] = SubSeq(row, Len(ParsedHeader) + 1, Len(row))

\* The decoding of the delimited file has come to its end, by exhaustion or
\* by an error of the reader's iteration.
DelimitedDone ==
    /\ config.file_type = "delimited"
    /\ pc \in {"Completed", "Failed"}
    /\ error \notin {"AmbiguousDelimiter", "NoFieldnames"}

\* What holds of the handling of misaligned rows, the line the message
\* names apart.
MalformedRowHandling ==
    IF config.delimited_error_handling = "fail" /\ Misaligned # {}
    THEN /\ pc = "Failed"
         /\ error = "MalformedRow"
         /\ Len(records) = FirstMisaligned - 1
         /\ ~IsNone(msg)
         /\ Val(msg).file_name = Val(cur).name
    ELSE /\ pc = "Completed"
         /\ error = "none"
         /\ Len(records) = Len(ParsedRows)
         /\ \A m \in 1..Len(records) :
               Kept(records[m].row, ParsedRows[m].row)

\* C12 (as claimed): when a row's number of fields differs from the
\* header's, under "fail" the decoding stops at the first such row with the
\* malformed-row error, whose message names the file and the line of that
\* row in the file; under "ignore" there is no error and every row is
\* emitted, a short row with null for its missing trailing columns, a long
\* row with its extra values under one catch-all key.
CexC12 ==
    DelimitedDone =>
        /\ MalformedRowHandling
        /\ ~IsNone(msg) =>
              Val(msg).line = LineInFile(ParsedRows[FirstMisaligned].at)

\* The numbers of the lines of the JSON Lines file that are not valid JSON,
\* and the numbers of those that are, in order.
InvalidLines ==
    { k \in 1..Len(Val(content).lines) : ~Val(content).lines[k].valid }
ValidLines ==
    SelectSeq([k \in 1..Len(Val(content).lines) |-> k],
              LAMBDA k : Val(content).lines[k].valid)

\* The run over the JSON Lines file, its schema sampled from the first row,
\* has come to its end.
JSONLDone ==
    /\ config.file_type = "jsonl"
    /\ config.jsonl_sampling_strategy = "first"
    /\ pc \in {"Completed", "Failed"}

\* C13 (as claimed): for a JSON Lines file with a line that is not valid
\* JSON, under "fail" the run aborts with the error that names the file and
\* the number k of the first such line; under "ignore" the run completes
\* without error and its records are the valid lines of the file, those
\* after line k included, in order.
CexC13 ==
    (JSONLDone /\ InvalidLines # {}) =>
        IF config.jsonl_error_handling = "fail"
        THEN /\ pc = "Failed"
             /\ error = "JSONDecodeError"
             /\ msg = Some([file_name |-> Val(cur).name,
                            line |-> CHOOSE k \in InvalidLines :
                                        \A j \in InvalidLines : k <= j])
        ELSE /\ pc = "Completed"
             /\ error = "none"
             /\ Len(records) = Len(ValidLines)
             /\ \A m \in 1..Len(records) :
                   /\ ~IsNone(records[m].sdc) =>
                         Val(records[m].sdc).line_number = ValidLines[m]
                   /\ config.jsonl_type_coercion_strategy = "any" =>
                         records[m].row
                           = Val(Val(content).lines[ValidLines[m]].parsed)

\* The conversion of the Avro types as a table: the primitive type names
\* and the JSON schema type of each.
Conversions ==
    { <<"int", "integer">>, <<"long", "integer">>, <<"float", "number">>,
      <<"double", "number">>, <<"boolean", "boolean">>,
      <<"string", "string">>, <<"null", "null">>, <<"bytes", "string">> }

\* The type is a string that the table has.
Convertible(t) == t.str /\ \E c \in Conversions : c[1] = t.name

\* The fields of the Avro file's schema.
AvroFields == Val(content).fields

\* C14: under "convert" the type of a schema field whose Avro type is int
\* or long is integer, float or double number, boolean, string and null
\* themselves, bytes string; a field of any other type (a string that names
\* none of these, or a description that is no string: record, enum, array,
\* map, union, fixed) fails the stream with the unsupported-type error, and
\* then there is no schema and no record.
ThmC14 ==
    (config.file_type = "avro" /\ pc # "Discovering"
     /\ config.avro_type_coercion_strategy = "convert") =>
        IF \A i \in 1..Len(AvroFields) : Convertible(AvroFields[i].type)
        THEN /\ error = "none"
             /\ ~IsNone(schema)
             /\ \A i \in 1..Len(AvroFields) :
                   \E c \in Conversions :
                      /\ c[1] = AvroFields[i].type.name
                      /\ Val(schema)[AvroFields[i].name].type = <<c[2]>>
        ELSE /\ pc = "Failed"
             /\ error = "UnsupportedAvroType"
             /\ IsNone(schema)
             /\ records = <<>>

\* Under "convert" a file with a long field and a bytes field was read to
\* its end.
WitC14 ==
    /\ config.file_type = "avro"
    /\ config.avro_type_coercion_strategy = "convert"
    /\ pc = "Completed"
    /\ records # <<>>
    /\ \E i, j \in 1..Len(AvroFields) :
          /\ AvroFields[i].type = [str |-> TRUE, name |-> "long"]
          /\ AvroFields[j].type = [str |-> TRUE, name |-> "bytes"]

\* The schema of the Avro file has a field whose type is a record.
HasRecordField ==
    \E i \in 1..Len(AvroFields) :
       AvroFields[i].type = [str |-> FALSE, name |-> "record"]

\* C15: for an Avro file whose schema has a record-typed field, under
\* "convert" the stream fails with the unsupported-type error and emits
\* nothing; under "envelope" there is no error, the only data column of the
\* schema is record, a nullable object, and every row is emitted as
\* {record: row}, all the rows of the file once it is read.
ThmC15 ==
    (config.file_type = "avro" /\ pc # "Discovering" /\ HasRecordField) =>
        IF config.avro_type_coercion_strategy = "convert"
        THEN /\ pc = "Failed"
             /\ error = "UnsupportedAvroType"
             /\ records = <<>>
        ELSE /\ pc # "Failed"
             /\ error = "none"
             /\ DataFields = { <<"record">> }
             /\ Val(schema)[<<"record">>].type = <<"null", "object">>
             /\ \A m \in 1..Len(records) :
                   /\ DOMAIN records[m].row = { <<"record">> }
                   /\ records[m].row[<<"record">>] = Datum(AvroFields, m)
             /\ pc = "Completed" => Len(records) = Val(content).rows

\* Under "envelope" a file with a record-typed field was read to its end
\* and gave a record.
WitC15 ==
    /\ config.file_type = "avro"
    /\ config.avro_type_coercion_strategy = "envelope"
    /\ HasRecordField
    /\ pc = "Completed"
    /\ records # <<>>

\* The schema of the delimited stream has been made.
DelimitedSchema ==
    /\ config.file_type = "delimited"
    /\ ~IsNone(schema)

\* C16: the data columns of the schema of a delimited file are exactly the
\* names in its header, each a nullable string, with the three provenance
\* columns beside them when additional_info is set and no other column,
\* whatever rows the file has and whatever was read of them.
ThmC16 ==
    DelimitedSchema =>
        /\ DataFields = Range(ParsedHeader)
        /\ \A f \in DataFields :
              Val(schema)[f] = Property(<<"null", "string">>, "")
        /\ DOMAIN Val(schema) \ DataFields
              = IF config.additional_info THEN DOMAIN SdcProperties ELSE {}

\* A file with a header of two columns was read to its end under "ignore";
\* one of its rows had too few fields and one too many.
WitC16 ==
    /\ DelimitedSchema
    /\ config.delimited_error_handling = "ignore"
    /\ pc = "Completed"
    /\ Len(ParsedHeader) = 2
    /\ \E m, n \in 1..Len(records) :
          /\ None \in DOMAIN records[m].row
          /\ \E f \in DOMAIN records[n].row : f # None /\ records[n].row[f] = None

\* What C18 says of everything but the line number: with additional_info
\* every record carries the name and the last_modified of the file it was
\* read from and the schema has the three provenance columns; without it no
\* record and no schema has any of them.
Provenance ==
    /\ \A m \in 1..Len(records) :
          IF config.additional_info
          THEN /\ ~IsNone(records[m].sdc)
               /\ Val(records[m].sdc).file_name = Val(cur).name
               /\ Val(records[m].sdc).last_modified = Val(cur).last_modified
          ELSE IsNone(records[m].sdc)
    /\ ~IsNone(schema) =>
          IF config.additional_info
          THEN \A f \in DOMAIN SdcProperties :
                  /\ f \in DOMAIN Val(schema)
                  /\ Val(schema)[f] = SdcProperties[f]
          ELSE DOMAIN Val(schema) \cap DOMAIN SdcProperties = {}

\* The number in the file of the line the m-th record was read from; an
\* Avro file has no lines, and the number is that of the datum.
LineOfRecord(m) ==
    IF config.file_type = "delimited" THEN LineInFile(ParsedRows[m].at)
    ELSE IF config.file_type = "jsonl" THEN ValidLines[m]
    ELSE m

\* C18 (as claimed): with additional_info every record of every decoder
\* carries the name of its file, its 1-based line number within that file
\* and the file's last_modified, and the schema has the three columns;
\* without it no record and no schema has any of them.
CexC18 ==
    /\ Provenance
    /\ \A m \in 1..Len(records) :
          ~IsNone(records[m].sdc) =>
              Val(records[m].sdc).line_number = LineOfRecord(m)

\* The discovery of the schema of the JSON Lines file is over.
JSONLDiscovered ==
    /\ config.file_type = "jsonl"
    /\ pc # "Discovering"

\* The fields of the first row sampled from the JSON Lines file, the first
\* of its lines that is valid JSON: the one field of the envelope, or the
\* keys of the object; none when the file has no such line.
SampledFields ==
    IF ValidLines = <<>> THEN {}
    ELSE IF config.jsonl_type_coercion_strategy = "envelope"
    THEN { <<"record">> }
    ELSE DOMAIN Val(Val(content).lines[ValidLines[1]].parsed)

\* C20: for JSON Lines under jsonl_sampling_strategy = "first" the fields
\* of the schema, its provenance columns apart, are exactly the fields of
\* the first sampled row, each typed by the coercion strategy, and there is
\* none when there is no row; the fields of the first record emitted are
\* those of the schema. Under "all" the discovery fails with the
\* not-implemented error for every file, and nothing is emitted.
ThmC20 ==
    JSONLDiscovered =>
        IF config.jsonl_sampling_strategy = "all"
        THEN /\ pc = "Failed"
             /\ error = "NotImplemented"
             /\ IsNone(schema)
             /\ records = <<>>
        ELSE ~IsNone(schema) =>
                /\ DataFields = SampledFields
                /\ \A f \in DataFields : Val(schema)[f] = JSONLProperty(config)
                /\ records # <<>> => DOMAIN Val(schema) = Keys(records[1])

\* Under "first" and "ignore", a file whose first line is no JSON and whose
\* second line is an object of two keys was read to its end: its schema
\* has the two fields of the second line.
WitC20 ==
    /\ JSONLDiscovered
    /\ config.jsonl_sampling_strategy = "first"
    /\ config.jsonl_type_coercion_strategy = "string"
    /\ pc = "Completed"
    /\ ~IsNone(schema)
    /\ InvalidLines = {1}
    /\ Len(records) = 1
    /\ Cardinality(DataFields) = 2

\* The value json.loads made of the line the m-th record was read from.
ParsedOf(m) == Val(Val(content).lines[ValidLines[m]].parsed)

\* What C21 says of the emitted rows and of the types of the schema's
\* fields: under "any" the row is the parsed object and every field allows
\* every JSON type; under "string" every value of the row is the string
\* form of the parsed value and every field is a nullable string; under
\* "envelope" the row is the parsed value under the one field "record" and
\* every field is a nullable object.
Coerced ==
    /\ \A m \in 1..Len(records) :
          LET row == records[m].row
              parsed == ParsedOf(m)
          IN IF config.jsonl_type_coercion_strategy = "any"
             THEN row = parsed
             ELSE IF config.jsonl_type_coercion_strategy = "string"
             THEN /\ DOMAIN row = DOMAIN parsed
                  /\ \A k \in DOMAIN row :
                        /\ row[k].json = "string"
                        /\ row[k].text
                             = IF parsed[k].json = "boolean"
                               THEN IF parsed[k].text = <<"true">>
                                    THEN <<"True">> ELSE <<"False">>
                               ELSE parsed[k].text
             ELSE /\ DOMAIN row = { <<"record">> }
                  /\ row[<<"record">>] = parsed
    /\ ~IsNone(schema) =>
          \A f \in DataFields :
             Val(schema)[f].type
               = IF config.jsonl_type_coercion_strategy = "any"
                 THEN <<"null", "boolean", "integer", "number", "string",
                        "array", "object">>
                 ELSE IF config.jsonl_type_coercion_strategy = "string"
                 THEN <<"null", "string">>
                 ELSE <<"null", "object">>

\* C21 (as claimed): the coercion of JSON Lines rows and the types of the
\* schema's fields are as above, and under "envelope" the schema has
\* exactly one data field.
CexC21 ==
    config.file_type = "jsonl" =>
        /\ Coerced
        /\ (config.jsonl_type_coercion_strategy = "envelope"
              /\ ~IsNone(schema)) => Cardinality(DataFields) = 1

\* C21 (amended): the coercion of JSON Lines rows and the types of the
\* schema's fields are as above; under "envelope" the schema has the one
\* data field "record" when the file yields a row, and no data field when
\* it yields none.
ThmC21 ==
    config.file_type = "jsonl" =>
        /\ Coerced
        /\ (config.jsonl_type_coercion_strategy = "envelope"
              /\ ~IsNone(schema)) =>
                DataFields = IF ValidLines = <<>> THEN {}
                             ELSE { <<"record">> }

\* Under "string" a file of two objects was read to its end: the second
\* record carries the string forms of a number and of true.
WitC21 ==
    /\ config.file_type = "jsonl"
    /\ config.jsonl_type_coercion_strategy = "string"
    /\ pc = "Completed"
    /\ Len(records) = 2
    /\ \E k \in DOMAIN records[2].row : records[2].row[k].text = <<"True">>
    /\ \E k \in DOMAIN records[2].row : records[2].row[k].text = <<"1">>

\* The type descriptors of the spec: null with one of the JSON types, or
\* with all of them.
NullUnions ==
    { <<"null", t>> : t \in {"integer", "number", "boolean", "string",
                              "object", "array"} }
    \cup { <<"null", "boolean", "integer", "number", "string", "array",
             "object">> }

\* C28: in every schema the stream makes, of a delimited file, of a JSON
\* Lines file under each coercion strategy and of an Avro file under
\* convert and under envelope, the type of every data field is a union
\* that includes null.
CexC28 ==
    ~IsNone(schema) =>
        \A f \in DataFields : Val(schema)[f].type \in NullUnions

\* C25: for a file of n lines, delimited_header_skip = h and
\* delimited_footer_skip = f, _skip_rows returns the lines h + 1 .. n - f
\* in their order when h + f <= n and the empty list when h + f > n, and
\* raises for no h, f, n >= 0.
ThmC25 ==
    pc = "Skipped" =>
        LET lines == Val(content).lines
            n == Len(lines)
            h == config.delimited_header_skip
            f == config.delimited_footer_skip
            file_list == Val(reader).file_list
        IN IF h + f <= n
           THEN /\ Len(file_list) = n - h - f
                /\ \A i \in 1..Len(file_list) : file_list[i] = lines[h + i]
           ELSE file_list = <<>>

\* One line was skipped at the head and one at the end of a file of three
\* lines, the first of which differs from the second.
WitC25 ==
    /\ pc = "Skipped"
    /\ config.delimited_header_skip = 1
    /\ config.delimited_footer_skip = 1
    /\ Len(Val(content).lines) = 3
    /\ Val(content).lines[1] # Val(content).lines[2]
    /\ Val(reader).file_list = << Val(content).lines[2] >>

\* The datatypes found among the values the samples have under a key.
Observed(key) ==
    LET samples == Val(content).samples
    IN { Val(get_datatype(samples[i][key])) :
           i \in { j \in 1..Len(samples) :
                     /\ key \in DOMAIN samples[j]
                     /\ ~IsNone(get_datatype(samples[j][key])) } }

\* The schema has been established from the samples and no row has been
\* converted.
Established == pc = "Converting" /\ line_number = 0

\* C26: in the schema tallied from samples the type of every field is
\* ["null", t], where t is the one datatype that was observed when it is
\* the only one, number when integer and number were observed and nothing
\* else, and string in every other case, no datatype observed included.
ThmC26 ==
    Established =>
        /\ DOMAIN Val(schema)
             = UNION { DOMAIN Val(content).samples[i] :
                       i \in 1..Len(Val(content).samples) }
        /\ \A key \in DOMAIN Val(schema) :
              Val(schema)[key].type
                = << "null",
                     IF Cardinality(Observed(key)) = 1
                     THEN CHOOSE t \in Observed(key) : TRUE
                     ELSE IF Observed(key) = {"integer", "number"}
                     THEN "number"
                     ELSE "string" >>

\* A schema was established from two samples, an integer and a number
\* under the same key.
WitC26 ==
    /\ Established
    /\ Observed(<<"x">>) = {"integer", "number"}
    /\ Val(schema)[<<"x">>].type = <<"null", "number">>

\* C27: once the schema of a stream has been created, no step of the run,
\* the conversion of a row against the schema included, changes the type
\* of any of its fields.
CexC27 == [][~IsNone(schema) => schema' = schema]_vars

\* C30: the starting cursor of a stream is determined at its construction:
\* with a state that is not empty it is the replication_key_value of the
\* bookmark of the configured stream_name, whatever start_date, and the
\* construction fails with the RuntimeError of the missing bookmark when
\* the state has none for that name; with no state it is start_date when
\* one is configured and none otherwise.
ThmC30 ==
    pc # "Idle" =>
        IF state # <<>>
        THEN IF config.stream_name \in DOMAIN state
             THEN /\ starting_replication_key_value
                       = Some(state[config.stream_name])
                  /\ error # "NoStateForStream"
             ELSE /\ pc = "Failed"
                  /\ error = "NoStateForStream"
                  /\ IsNone(schema)
        ELSE /\ starting_replication_key_value = config.start_date
             /\ error # "NoStateForStream"

\* A stream was constructed with a state that has the bookmark of its
\* name and with a start_date of another instant: its cursor is the
\* bookmark's.
WitC30 ==
    /\ pc = "Listing"
    /\ config.stream_name \in DOMAIN state
    /\ ~IsNone(config.start_date)
    /\ strptime(state[config.stream_name]) # strptime(Val(config.start_date))
    /\ starting_replication_key_value = Some(state[config.stream_name])

Ambiguous == yielded[Len(yielded)].name

Terminal == {"Completed", "Failed"}

\* The rows of the files of the storage location.
AllRows == UNION { Range(Body(fs[i].name).rows) : i \in 1..Len(fs) }

\* The pipeline is about to start on an input with a fatal condition: no
\* file to find, a row that does not decode under "fail", an Avro type
\* that is not converted, the sampling strategy that is not implemented.
Fatal ==
    /\ pc = "Idle"
    /\ \/ fs = <<>>
       \/ /\ config.file_type = "delimited"
          /\ config.delimited_error_handling = "fail"
          /\ "bad" \in AllRows
       \/ /\ config.file_type = "jsonl"
          /\ config.jsonl_error_handling = "fail"
          /\ "bad" \in AllRows
       \/ /\ config.file_type = "jsonl"
          /\ config.jsonl_sampling_strategy = "all"
       \/ /\ config.file_type = "avro"
          /\ config.avro_type_coercion_strategy = "convert"
          /\ \E i \in 1..Len(fs) : ~Body(fs[i].name).supported

\* A step from a terminal state changes neither the state of the pipeline
\* nor the records emitted nor the storage operations performed.
AtRest ==
    pc \in Terminal => (pc' = pc /\ records' = records /\ io' = io)

OpenAt(k) ==
    { name \in PipeNames :
        \E i \in 1..k :
            /\ io[i] = Open(name)
            /\ \A j \in (i + 1)..k : io[j] # Close(name) }

Sdc(i) == Val(records[i].sdc)

\* The position of a file in the order get_files has selected.
Position(name) ==
    CHOOSE k \in 1..Len(file_dict_list) : file_dict_list[k].name = name

\* The lines of a file that give a record: every row of a delimited or an
\* Avro file, the lines of a JSON Lines file that parse.
Emitted(name) ==
    { k \in 1..Len(Body(name).rows) :
        config.file_type = "jsonl" => Body(name).rows[k] = "ok" }

\* C29: the records come file after file in the selected order, those of
\* one file with strictly increasing line numbers that restart with the
\* next file; a file whose records are followed by another file's has had
\* every one of its records emitted; and the _sdc_last_modified values of
\* the sequence of records never decrease.
ThmC29 ==
    /\ \A i \in 1..(Len(records) - 1) :
          IF Sdc(i).file_name = Sdc(i + 1).file_name
          THEN Sdc(i).line_number < Sdc(i + 1).line_number
          ELSE /\ Position(Sdc(i).file_name)
                    < Position(Sdc(i + 1).file_name)
               /\ Sdc(i + 1).line_number
                    = CHOOSE k \in Emitted(Sdc(i + 1).file_name) :
                        \A l \in Emitted(Sdc(i + 1).file_name) : k <= l
               /\ { Sdc(j).line_number :
                      j \in { l \in 1..i :
                                Sdc(l).file_name = Sdc(i).file_name } }
                    = Emitted(Sdc(i).file_name)
    /\ \A i, j \in 1..Len(records) :
          /\ i < j => Position(Sdc(i).file_name) <= Position(Sdc(j).file_name)
          /\ i < j => Sdc(i).last_modified <= Sdc(j).last_modified

\* Two records of an older file have been emitted, and after them a record
\* of a newer file.
WitC29 ==
    /\ Len(records) >= 3
    /\ Sdc(1).file_name = Sdc(2).file_name
    /\ Sdc(2).file_name # Sdc(3).file_name
    /\ Sdc(2).last_modified < Sdc(3).last_modified

\* The column names in the headers of a set of listing entries.
HeaderNames(entries) == UNION { Range(HeaderOf(e.name)) : e \in entries }

\* C17 (as claimed): the set of data columns of the discovered delimited
\* schema is the union of the header names of all the files that pass the
\* directory, size and pattern filters, whether or not a starting cursor is
\* set.
CexC17 ==
    ~IsNone(schema) => DataFields = HeaderNames(Candidates)

\* C17 (amended): the set of data columns of the discovered delimited
\* schema is the union of the header names of the files get_files yields
\* for the run's starting cursor: the candidates that are not older than
\* it, all the candidates when no cursor is set.
ThmC17 ==
    ~IsNone(schema) =>
        /\ DataFields = HeaderNames(Selectable)
        /\ IsNone(starting_replication_key_value) =>
              DataFields = HeaderNames(Candidates)

\* A schema was discovered under a cursor from two candidates with
\* different headers, the older of which the cursor leaves out together
\* with a column only it has.
WitC17 ==
    /\ ~IsNone(schema)
    /\ ~IsNone(starting_replication_key_value)
    /\ Cardinality(Candidates) = 2
    /\ Cardinality(Selectable) = 1
    /\ DataFields # {}
    /\ DataFields # HeaderNames(Candidates)

====
